---- MODULE Spec2Model ----
(***************************************************************************)
(* Model of the atmn scenario generator (src/src/atmn/ScenarioGenerator.py):*)
(* the memory-aware worker pool that runs the simulation jobs.             *)
(*                                                                         *)
(* Memory amounts are floats in the source (the estimate is                *)
(* 0.15*iterations*parts + 40*parts + filesize).  They are kept exactly    *)
(* here as integers counted in twentieths of a kB (suffix 20), so that     *)
(* int(memory), the truncation done by the reservation code, is modelled   *)
(* by what it does.  The available memory and the shared counter are       *)
(* whole kB.                                                               *)
(***************************************************************************)
EXTENDS Integers, Sequences, FiniteSets, TLC

\* ------------------------------------------------------------------ bounds
MaxScenarios == 2
MaxJobs == 3
MaxThreads == 2
MaxLeaks == 1

\* ------------------------------------------------------- program constants
\* twentieths of a kB per kB: 0.15 = 3/20 is the finest grain of an estimate
Scale == 20
\* lowest_estimated_memory starts at 10**12 kB in the source; that exceeds the
\* integer range of the model checker, so the model uses 10**8 kB (counted in
\* twentieths), which is likewise above every budget of the model
LowestInit20 == 2000000000

\* the network every scenario of the model refers to: a reservoir, a junction
\* and the pipe between them, in a file smaller than 1000 bytes
Network == [n_nodes |-> 2, n_links |-> 1, filesize |-> 0]

\* iteration counts of the scenarios and budgets (kB) of the runs considered
IterChoices == {1, 10}
MemChoices == {245, 248}

\* ------------------------------------------------------------ pure helpers
\* int(x) of Python for a value counted in twentieths: truncation towards 0
ToInt(x20) == IF x20 >= 0 THEN x20 \div Scale ELSE -((-x20) \div Scale)

\* ScenarioGenerator.estimate_wn_memory, in twentieths of a kB
estimate_wn_memory(iterations) ==
    3 * iterations * (Network.n_nodes + Network.n_links)
        + 40 * Scale * (Network.n_nodes + Network.n_links)
        + Scale * Network.filesize

\* a scenario of the configuration, reduced to what the scheduler reads:
\* its iteration count and the number of its leak configs that pass the
\* selection and existence filters of the job creation loop
ScenarioKinds == [iterations : IterChoices, leak_configs : 0..MaxJobs]

RECURSIVE TotalLeakConfigs(_)
TotalLeakConfigs(scens) ==
    IF scens = <<>> THEN 0 ELSE Head(scens).leak_configs + TotalLeakConfigs(Tail(scens))

RECURSIVE SeqsUpTo(_, _)
SeqsUpTo(S, n) ==
    IF n = 0 THEN {<<>>}
    ELSE LET shorter == SeqsUpTo(S, n - 1)
         IN  shorter \cup {Append(s, x) : s \in {t \in shorter : Len(t) = n - 1}, x \in S}

RECURSIVE Repeat(_, _)
Repeat(x, n) == IF n = 0 THEN <<>> ELSE Append(Repeat(x, n - 1), x)

\* the job list built by create_job_list_and_write_configs: the scenarios in
\* order, a scenario whose estimate exceeds the available memory skipped, one
\* job per surviving leak config carrying the scenario's estimate
RECURSIVE create_job_list(_, _)
create_job_list(scens, avail) ==
    IF scens = <<>> THEN <<>>
    ELSE LET scenario == Head(scens)
             estimated_memory == estimate_wn_memory(scenario.iterations)
         IN  IF estimated_memory > avail * Scale
             THEN create_job_list(Tail(scens), avail)
             ELSE Repeat([memory_estimate |-> estimated_memory], scenario.leak_configs)
                    \o create_job_list(Tail(scens), avail)

\* lowest_estimated_memory after the loop over the scenarios
RECURSIVE lowest_estimated_memory(_)
lowest_estimated_memory(scens) ==
    IF scens = <<>> THEN LowestInit20
    ELSE LET rest == lowest_estimated_memory(Tail(scens))
             estimated_memory == estimate_wn_memory(Head(scens).iterations)
         IN  IF estimated_memory < rest THEN estimated_memory ELSE rest

\* int(self.available_memory // lowest_estimated_memory)
practical_n_threads(avail, lowest20) == (avail * Scale) \div lowest20

\* the thread count after clamping
\* the thread count left as requested
clamp_threads_never(requested, avail, lowest20) == requested

clamp_threads(requested, avail, lowest20) ==
    IF practical_n_threads(avail, lowest20) < requested
    THEN practical_n_threads(avail, lowest20)
    ELSE requested

\* ------------------------------------------------------------- leak checks
\* a leak dictionary, reduced to what decides whether insert_leak succeeds
\* (its type, whether it has a peak, which of nodeId and pipeId it names)
LeakChoices ==
    { [type |-> "abrupt",    peak |-> FALSE, target |-> "nodeId"],
      [type |-> "incipient", peak |-> TRUE,  target |-> "pipeId"],
      [type |-> "incipient", peak |-> FALSE, target |-> "nodeId"],
      [type |-> "abrupt",    peak |-> FALSE, target |-> "none"],
      [type |-> "other",     peak |-> TRUE,  target |-> "pipeId"] }

\* SimulationJob.insert_leak: TRUE if the leak was added, FALSE otherwise
insert_leak(leak_info) ==
    IF leak_info.type = "incipient" /\ ~leak_info.peak THEN FALSE
    ELSE IF leak_info.target = "none" THEN FALSE
    ELSE IF leak_info.type = "incipient" THEN TRUE
    ELSE IF leak_info.type = "abrupt" THEN TRUE
    ELSE FALSE

\* SimulationJob.init: FALSE at the first leak that could not be inserted
init(leaks) == \A i \in 1..Len(leaks) : insert_leak(leaks[i])

LeakLists == SeqsUpTo(LeakChoices, MaxLeaks)

\* ------------------------------------------------------------ memory budget
\* faulty variants of the reservation predicate, used to test the claims:
\* no test at all, a decrement that is not undone on refusal, and a test of
\* the counter before instead of after the subtraction
reserve_memory_unchecked(value, memory20) ==
    [reserved |-> TRUE, value |-> value - ToInt(memory20)]

reserve_memory_keeps_decrement(value, memory20) ==
    [reserved |-> value - ToInt(memory20) >= 0, value |-> value - ToInt(memory20)]

reserve_memory_stale_test(value, memory20) ==
    IF value >= 0
    THEN [reserved |-> TRUE, value |-> value - ToInt(memory20)]
    ELSE [reserved |-> FALSE, value |-> value]

\* the predicate built by Worker._reserve_memory: the new counter value and
\* whether the reservation was made
reserve_memory(value, memory20) ==
    LET new_available_memory == value - ToInt(memory20)
    IN  IF new_available_memory >= 0
        THEN [reserved |-> TRUE, value |-> new_available_memory]
        ELSE [reserved |-> FALSE, value |-> value]

\* Worker._unreserve_memory: the new counter value
unreserve_memory(value, memory20) == value + ToInt(memory20)

\* --------------------------------------------------------------- the state
VARIABLES
    available_memory,         \* self.available_memory, the budget in kB
    n_threads,                \* self.n_threads after clamping
    job_list,                 \* self.job_list
    available_memory_shared,  \* the shared counter (multiprocessing.Value)
    lock,                     \* holder of the condition's lock, 0 if free
    pc,                       \* per worker: its position in the pool loop
    cur,                      \* per worker: index of the job it processes, 0 if none
    next,                     \* index of the next job the pool hands out
    taken,                    \* per job: how often it was handed to a worker
    state,                    \* per job: its lifecycle state
    reserved,                 \* jobs holding a reservation not yet released
    outqueue,                 \* results sent back to the parent, not yet iterated
    progress,                 \* results the parent has iterated over
    mainpc                    \* position of the parent process in run()

\* the state of the generator before the pool runs, and the collection on disk
VARIABLES
    scenarios,                \* self.scenarios, the configuration tree
    selection,                \* self.selection
    force_regenerate,         \* self.force_regenerate
    collection,               \* the artifacts present under self.collection_path
    deleted,                  \* artifacts removed during the current run
    written,                  \* artifacts written during the current run
    errors,                   \* scenarios reported as exceeding the memory
    validated,                \* scenarios whose network was loaded by the current run
    simulations,              \* simulator invocations of the current run
    n_threads_arg,            \* the n_threads argument of the constructor
    genpc                     \* position of the generator process

\* the variables of a pool run that the setup of the generator does not set
workervars == <<available_memory_shared, lock, pc, cur, next, taken, state,
                reserved, outqueue, progress, mainpc>>

\* the variables of the setup that a pool run does not touch
setupvars == <<scenarios, selection, force_regenerate, collection, deleted, written,
               errors, validated, simulations, n_threads_arg, genpc>>

\* create_sensor_masks
VARIABLES
    sensor_scenarios,         \* the SensorConfigs of the scenarios of the config
    sensor_masks,             \* self.sensor_masks
    maskpc                    \* position of create_sensor_masks

maskvars == <<sensor_scenarios, sensor_masks, maskpc>>

\* the loader
VARIABLES
    sensorfault_config,       \* the sensorfault config file of the scenario
    measurement_files,        \* the measurement files of the leak config
    loads                     \* the calls of Scenario.get so far and their results

loadvars == <<sensorfault_config, measurement_files, loads>>

VARIABLES
    xml_files,                \* the topology and config files on disk: path to text
    writes                    \* the calls of write_xml_warn_if_changed so far

writevars == <<xml_files, writes>>

VARIABLES
    incipient_leak,           \* an incipient leak and the times of its job
    leak_pattern              \* the demand pattern insert_leak makes of it

VARIABLES
    wn_nodes,                 \* the node names of the network of a job
    wn_links,                 \* its links: name, start node, end node
    wn_patterns,              \* its pattern names, in the order they were added
    inserted                  \* the calls of insert_leak of the job so far

networkvars == <<wn_nodes, wn_links, wn_patterns, inserted>>

VARIABLES
    dtype,                    \* the dtype the generator and its jobs got
    warned,                   \* whether run(args) printed its warning
    stored                    \* what the calls of save so far left on disk

savevars == <<dtype, warned, stored>>

patternvars == <<incipient_leak, leak_pattern, networkvars, savevars>>

vars == <<available_memory, n_threads, job_list, workervars, setupvars,
          maskvars, loadvars, writevars, patternvars>>

WorkerIds == 1..MaxThreads
Workers == {w \in WorkerIds : w <= n_threads}
Jobs == 1..Len(job_list)

\* a faulty control flow that gives the memory back before the results are written
worker_next_release_first(at, ok) ==
    CASE at = "init"      -> IF ok THEN "simulate" ELSE "idle"
      [] at = "simulate"  -> "unreserve"
      [] at = "unreserve" -> "notify"
      [] at = "notify"    -> "save"
      [] at = "save"      -> "idle"

\* control flow of Worker.worker after the reservation: the step that follows
\* step `at`, given whether that step reported success
worker_next(at, ok) ==
    CASE at = "init"      -> IF ok THEN "simulate" ELSE "idle"
      [] at = "simulate"  -> "save"
      [] at = "save"      -> "unreserve"
      [] at = "unreserve" -> "notify"
      [] at = "notify"    -> "idle"

\* no sensor mask is looked at
NoMasks ==
    /\ sensor_scenarios = <<>>
    /\ sensor_masks = <<>>
    /\ maskpc = "done"

\* no collection is loaded
NoLoads ==
    /\ sensorfault_config = <<>>
    /\ measurement_files = <<>>
    /\ loads = <<>>

\* no file is written
NoWrites ==
    /\ xml_files = <<>>
    /\ writes = <<>>

\* no network is loaded
NoNetwork ==
    /\ wn_nodes = {}
    /\ wn_links = {}
    /\ wn_patterns = <<>>
    /\ inserted = <<>>

\* no job saves
NoSave ==
    /\ dtype = "<None>"
    /\ warned = FALSE
    /\ stored = <<>>

\* no leak is looked at
NoPattern ==
    /\ incipient_leak = <<>>
    /\ leak_pattern = <<>>
    /\ NoNetwork
    /\ NoSave

\* the setup variables during a pool run: the run is looked at from the
\* creation of the pool on, the setup is over and is not looked at
SetupDone ==
    /\ scenarios = <<>>
    /\ selection = [given |-> FALSE, list |-> {}]
    /\ force_regenerate = FALSE
    /\ collection = {}
    /\ deleted = {}
    /\ written = {}
    /\ errors = {}
    /\ validated = {}
    /\ simulations = 0
    /\ genpc = "pool"
    /\ NoMasks
    /\ NoLoads
    /\ NoWrites
    /\ NoPattern

\* ScenarioGenerator.run up to the creation of the pool
Init ==
    \E scens \in SeqsUpTo(ScenarioKinds, MaxScenarios),
       avail \in MemChoices,
       requested \in 1..MaxThreads :
        /\ TotalLeakConfigs(scens) <= MaxJobs
        /\ available_memory = avail
        /\ job_list = create_job_list(scens, avail)
        /\ n_threads = clamp_threads(requested, avail, lowest_estimated_memory(scens))
        /\ available_memory_shared = avail
        /\ lock = 0
        /\ pc = [w \in WorkerIds |-> "idle"]
        /\ cur = [w \in WorkerIds |-> 0]
        /\ next = 1
        /\ taken = [j \in 1..Len(create_job_list(scens, avail)) |-> 0]
        /\ state = [j \in 1..Len(create_job_list(scens, avail)) |-> "Created"]
        /\ reserved = {}
        /\ outqueue = <<>>
        /\ progress = 0
        /\ SetupDone
        /\ n_threads_arg = requested
        \* multiprocessing.Pool refuses a process count below 1
        /\ mainpc = IF clamp_threads(requested, avail, lowest_estimated_memory(scens)) >= 1
                    THEN "imap" ELSE "error"

Alive == mainpc \in {"imap", "raised", "done"}

\* a pool process takes the next task of imap_unordered
Take(w) ==
    /\ UNCHANGED <<setupvars, maskvars, loadvars, writevars, patternvars>>
    /\ Alive
    /\ pc[w] = "idle"
    /\ next <= Len(job_list)
    /\ cur' = [cur EXCEPT ![w] = next]
    /\ taken' = [taken EXCEPT ![next] = @ + 1]
    /\ next' = next + 1
    /\ pc' = [pc EXCEPT ![w] = "acquire"]
    /\ UNCHANGED <<available_memory, n_threads, job_list, available_memory_shared,
                   lock, state, reserved, outqueue, progress, mainpc>>

\* `with condition:` and the re-acquisition at the end of condition.wait()
Acquire(w) ==
    /\ UNCHANGED <<setupvars, maskvars, loadvars, writevars, patternvars>>
    /\ Alive
    /\ pc[w] \in {"acquire", "woken"}
    /\ lock = 0
    /\ lock' = w
    /\ pc' = [pc EXCEPT ![w] = "pred"]
    /\ UNCHANGED <<available_memory, n_threads, job_list, available_memory_shared,
                   cur, next, taken, state, reserved, outqueue, progress, mainpc>>

\* condition.wait_for evaluates the predicate while holding the lock; on
\* success wait_for returns and the with block releases the lock
Pred(w) ==
    /\ UNCHANGED <<setupvars, maskvars, loadvars, writevars, patternvars>>
    /\ Alive
    /\ pc[w] = "pred"
    /\ LET r == reserve_memory(available_memory_shared, job_list[cur[w]].memory_estimate)
       IN  /\ available_memory_shared' = r.value
           /\ IF r.reserved
              THEN /\ pc' = [pc EXCEPT ![w] = "init"]
                   /\ lock' = 0
                   /\ state' = [state EXCEPT ![cur[w]] = "Admitted"]
                   /\ reserved' = reserved \cup {cur[w]}
              ELSE /\ pc' = [pc EXCEPT ![w] = "wait"]
                   /\ UNCHANGED <<lock, state, reserved>>
    /\ UNCHANGED <<available_memory, n_threads, job_list, cur, next, taken,
                   outqueue, progress, mainpc>>

\* condition.wait(): release the lock and sleep until notified
Wait(w) ==
    /\ UNCHANGED <<setupvars, maskvars, loadvars, writevars, patternvars>>
    /\ Alive
    /\ pc[w] = "wait"
    /\ lock' = 0
    /\ pc' = [pc EXCEPT ![w] = "sleep"]
    /\ UNCHANGED <<available_memory, n_threads, job_list, available_memory_shared,
                   cur, next, taken, state, reserved, outqueue, progress, mainpc>>

\* job.init(): the leaks of the job decide the outcome; on failure the worker
\* function returns at once
InitJob(w) ==
    /\ UNCHANGED <<setupvars, maskvars, loadvars, writevars, patternvars>>
    /\ Alive
    /\ pc[w] = "init"
    /\ \E leaks \in LeakLists :
        LET to == worker_next("init", init(leaks))
        IN  /\ pc' = [pc EXCEPT ![w] = to]
            /\ state' = [state EXCEPT ![cur[w]] = IF init(leaks) THEN "Initialized" ELSE "Failed"]
            /\ IF to = "idle"
               THEN /\ outqueue' = Append(outqueue, "ok")
                    /\ cur' = [cur EXCEPT ![w] = 0]
               ELSE UNCHANGED <<outqueue, cur>>
    /\ UNCHANGED <<available_memory, n_threads, job_list, available_memory_shared,
                   lock, next, taken, reserved, progress, mainpc>>

\* job.simulate(): the simulator returns or raises; an exception ends the
\* worker function and is sent to the parent as the job's result
Simulate(w) ==
    /\ UNCHANGED <<setupvars, maskvars, loadvars, writevars, patternvars>>
    /\ Alive
    /\ pc[w] = "simulate"
    /\ \E ok \in BOOLEAN :
        IF ok
        THEN LET to == worker_next("simulate", TRUE)
             IN  /\ pc' = [pc EXCEPT ![w] = to]
                 /\ state' = [state EXCEPT ![cur[w]] = "Simulated"]
                 /\ IF to = "idle"
                    THEN /\ outqueue' = Append(outqueue, "ok")
                         /\ cur' = [cur EXCEPT ![w] = 0]
                    ELSE UNCHANGED <<outqueue, cur>>
        ELSE /\ pc' = [pc EXCEPT ![w] = "idle"]
             /\ state' = [state EXCEPT ![cur[w]] = "Raised"]
             /\ outqueue' = Append(outqueue, "exception")
             /\ cur' = [cur EXCEPT ![w] = 0]
    /\ UNCHANGED <<available_memory, n_threads, job_list, available_memory_shared,
                   lock, next, taken, reserved, progress, mainpc>>

\* job.save(): the results are written or the write raises
Save(w) ==
    /\ UNCHANGED <<setupvars, maskvars, loadvars, writevars, patternvars>>
    /\ Alive
    /\ pc[w] = "save"
    /\ \E ok \in BOOLEAN :
        IF ok
        THEN LET to == worker_next("save", TRUE)
             IN  /\ pc' = [pc EXCEPT ![w] = to]
                 /\ state' = [state EXCEPT ![cur[w]] = "Persisted"]
                 /\ IF to = "idle"
                    THEN /\ outqueue' = Append(outqueue, "ok")
                         /\ cur' = [cur EXCEPT ![w] = 0]
                    ELSE UNCHANGED <<outqueue, cur>>
        ELSE /\ pc' = [pc EXCEPT ![w] = "idle"]
             /\ state' = [state EXCEPT ![cur[w]] = "Raised"]
             /\ outqueue' = Append(outqueue, "exception")
             /\ cur' = [cur EXCEPT ![w] = 0]
    /\ UNCHANGED <<available_memory, n_threads, job_list, available_memory_shared,
                   lock, next, taken, reserved, progress, mainpc>>

\* Worker._unreserve_memory under the counter's own lock
Unreserve(w) ==
    /\ UNCHANGED <<setupvars, maskvars, loadvars, writevars, patternvars>>
    /\ Alive
    /\ pc[w] = "unreserve"
    /\ available_memory_shared' =
           unreserve_memory(available_memory_shared, job_list[cur[w]].memory_estimate)
    /\ reserved' = reserved \ {cur[w]}
    /\ LET to == worker_next("unreserve", TRUE)
       IN  /\ pc' = [pc EXCEPT ![w] = to]
           /\ IF to = "idle"
              THEN /\ outqueue' = Append(outqueue, "ok")
                   /\ cur' = [cur EXCEPT ![w] = 0]
              ELSE UNCHANGED <<outqueue, cur>>
    /\ UNCHANGED <<available_memory, n_threads, job_list, lock, next, taken,
                   state, progress, mainpc>>

\* a notify_all issued without the lock of the condition
NotifyAll_without_lock(w) ==
    /\ UNCHANGED <<setupvars, maskvars, loadvars, writevars, patternvars>>
    /\ Alive
    /\ pc[w] = "notify"
    /\ LET to == worker_next("notify", TRUE)
       IN  /\ pc' = [v \in WorkerIds |->
                       IF v = w THEN to
                       ELSE IF pc[v] = "sleep" THEN "woken" ELSE pc[v]]
           /\ IF to = "idle"
              THEN /\ outqueue' = Append(outqueue, "ok")
                   /\ cur' = [cur EXCEPT ![w] = 0]
                   /\ state' = [state EXCEPT ![cur[w]] = "Done"]
              ELSE UNCHANGED <<outqueue, cur, state>>
    /\ UNCHANGED <<available_memory, n_threads, job_list, available_memory_shared,
                   lock, next, taken, reserved, progress, mainpc>>

\* `with condition: condition.notify_all()`: every sleeping worker is woken
NotifyAll(w) ==
    /\ UNCHANGED <<setupvars, maskvars, loadvars, writevars, patternvars>>
    /\ Alive
    /\ pc[w] = "notify"
    /\ lock = 0
    /\ LET to == worker_next("notify", TRUE)
       IN  /\ pc' = [v \in WorkerIds |->
                       IF v = w THEN to
                       ELSE IF pc[v] = "sleep" THEN "woken" ELSE pc[v]]
           /\ IF to = "idle"
              THEN /\ outqueue' = Append(outqueue, "ok")
                   /\ cur' = [cur EXCEPT ![w] = 0]
                   /\ state' = [state EXCEPT ![cur[w]] = "Done"]
              ELSE UNCHANGED <<outqueue, cur, state>>
    /\ UNCHANGED <<available_memory, n_threads, job_list, available_memory_shared,
                   lock, next, taken, reserved, progress, mainpc>>

\* the parent iterates over imap_unordered: a result that is an exception is
\* re-raised in the parent and leaves run()
Progress ==
    /\ UNCHANGED <<setupvars, maskvars, loadvars, writevars, patternvars>>
    /\ mainpc = "imap"
    /\ outqueue # <<>>
    /\ outqueue' = Tail(outqueue)
    /\ IF Head(outqueue) = "ok"
       THEN /\ progress' = progress + 1
            /\ UNCHANGED mainpc
       ELSE /\ mainpc' = "raised"
            /\ UNCHANGED progress
    /\ UNCHANGED <<available_memory, n_threads, job_list, available_memory_shared,
                   lock, pc, cur, next, taken, state, reserved>>

\* the iteration ends once every job has returned a result
RunDone ==
    /\ UNCHANGED <<setupvars, maskvars, loadvars, writevars, patternvars>>
    /\ mainpc = "imap"
    /\ progress = Len(job_list)
    /\ mainpc' = "done"
    /\ UNCHANGED <<available_memory, n_threads, job_list, available_memory_shared,
                   lock, pc, cur, next, taken, state, reserved, outqueue, progress>>

\* the uncaught exception ends the parent; the pool's daemonic processes are
\* terminated with it
Terminate ==
    /\ UNCHANGED <<setupvars, maskvars, loadvars, writevars, patternvars>>
    /\ mainpc = "raised"
    /\ mainpc' = "aborted"
    /\ UNCHANGED <<available_memory, n_threads, job_list, available_memory_shared,
                   lock, pc, cur, next, taken, state, reserved, outqueue, progress>>

WorkerStep(w) ==
    \/ Take(w) \/ Acquire(w) \/ Pred(w) \/ Wait(w) \/ InitJob(w)
    \/ Simulate(w) \/ Save(w) \/ Unreserve(w) \/ NotifyAll(w)

Next ==
    \/ \E w \in Workers : Take(w)
    \/ \E w \in Workers : Acquire(w)
    \/ \E w \in Workers : Pred(w)
    \/ \E w \in Workers : Wait(w)
    \/ \E w \in Workers : InitJob(w)
    \/ \E w \in Workers : Simulate(w)
    \/ \E w \in Workers : Save(w)
    \/ \E w \in Workers : Unreserve(w)
    \/ \E w \in Workers : NotifyAll(w)
    \/ Progress
    \/ RunDone
    \/ Terminate

Spec == Init /\ [][Next]_vars

\* every pool process and the parent keep being scheduled by the operating system
FairSpec ==
    /\ Spec
    /\ \A w \in WorkerIds : WF_vars(w \in Workers /\ WorkerStep(w))
    /\ WF_vars(Progress) /\ WF_vars(RunDone) /\ WF_vars(Terminate)

TypeOK ==
    /\ available_memory \in MemChoices
    /\ available_memory_shared \in Int
    /\ lock \in 0..MaxThreads
    /\ next \in 1..(Len(job_list) + 1)
    /\ mainpc \in {"imap", "raised", "done", "aborted", "error"}

\* ------------------------------------------------------------ claim helpers
RECURSIVE SumEstimates(_)
\* sum of the estimates (twentieths of a kB) of a set of jobs
SumEstimates(S) ==
    IF S = {} THEN 0
    ELSE LET j == CHOOSE x \in S : TRUE
         IN  job_list[j].memory_estimate + SumEstimates(S \ {j})

RECURSIVE SumReserved(_)
\* sum of the amounts (kB) the reservation code subtracts for a set of jobs
SumReserved(S) ==
    IF S = {} THEN 0
    ELSE LET j == CHOOSE x \in S : TRUE
         IN  ToInt(job_list[j].memory_estimate) + SumReserved(S \ {j})

\* jobs that hold a reservation and are being processed by a worker
Running == {j \in reserved : \E w \in Workers : cur[w] = j}

\* every job of the list asks for the same amount
SameAmount == \A i, j \in Jobs : job_list[i].memory_estimate = job_list[j].memory_estimate

\* ------------------------------------------------------------------ claims

\* C1 (as stated): the shared counter is never negative and the sum of the
\* estimates of the jobs that currently hold a reservation never exceeds the
\* initial budget.
C1_EstimatesWithinBudget ==
    /\ available_memory_shared >= 0
    /\ SumEstimates(Running) <= available_memory * Scale

\* C1 (amended): the shared counter is never negative and the sum of the
\* integer-truncated estimates, the amounts actually reserved, of the jobs
\* that hold a reservation never exceeds the initial budget.
C1_ReservedWithinBudget ==
    /\ available_memory_shared >= 0
    /\ SumReserved(reserved) <= available_memory

\* two jobs hold a reservation at once and the counter is used up
C1_Witness ==
    /\ Cardinality(Running) = 2
    /\ available_memory_shared = 0

\* C2: a job whose initialization failed after admission has released its
\* reservation once it has terminated.
C2_FailedJobReleased ==
    \A j \in Jobs : state[j] = "Failed" => j \notin reserved

\* C3: a job whose simulation or persistence raised has released its
\* reservation once it has terminated.
C3_RaisedJobReleased ==
    \A j \in Jobs : state[j] = "Raised" => j \notin reserved

\* C4: in every fair run whose pool was started, the run eventually ends: no
\* worker stays blocked in the reservation forever.
C4_RunEnds == <>(mainpc \in {"done", "aborted", "error"})

\* C5: no job failure aborts the run: the parent never leaves the iteration
\* over the pool's results through a failure of a job.
C5_RunNeverAborted == mainpc \notin {"raised", "aborted"}

\* C6: with the clamped worker count there is no state in which the pool has
\* workers and all of them are blocked waiting for memory.
C6_NoDeadlock == ~(Workers # {} /\ \A w \in Workers : pc[w] = "sleep")

\* C7 (as stated): a reservation attempt succeeds and subtracts the amount
\* exactly when counter - amount >= 0, and otherwise fails and leaves the
\* counter unchanged.
C7_ReserveExact ==
    [][\A w \in WorkerIds :
          (pc[w] = "pred" /\ pc'[w] # "pred") =>
              LET amount20 == job_list[cur[w]].memory_estimate
              IN  IF available_memory_shared * Scale - amount20 >= 0
                  THEN /\ pc'[w] = "init"
                       /\ available_memory_shared' * Scale
                              = available_memory_shared * Scale - amount20
                  ELSE /\ pc'[w] = "wait"
                       /\ available_memory_shared' = available_memory_shared]_vars

\* C7 (amended): a reservation attempt succeeds and subtracts int(amount)
\* exactly when counter - int(amount) >= 0, and otherwise fails and leaves the
\* counter unchanged; the counter never becomes negative, so two concurrent
\* attempts never both succeed when only one of the truncated amounts fits.
C7_ReserveTruncated ==
    /\ [](available_memory_shared >= 0)
    /\ [][\A w \in WorkerIds :
             (pc[w] = "pred" /\ pc'[w] # "pred") =>
                 LET amount == ToInt(job_list[cur[w]].memory_estimate)
                 IN  IF available_memory_shared - amount >= 0
                     THEN /\ pc'[w] = "init"
                          /\ cur[w] \in reserved'
                          /\ available_memory_shared' = available_memory_shared - amount
                     ELSE /\ pc'[w] = "wait"
                          /\ cur[w] \notin reserved'
                          /\ available_memory_shared' = available_memory_shared]_vars

\* one attempt has just been refused while another job holds its reservation
C7_Witness ==
    \E w \in Workers :
        /\ pc[w] = "wait"
        /\ Running # {}
        /\ available_memory_shared < ToInt(job_list[cur[w]].memory_estimate)

\* C8 (as stated): when every job asks for the same amount a, at most
\* floor(B / a) jobs hold a reservation at the same time.
C8_AtMostFloorOfEstimate ==
    (Jobs # {} /\ SameAmount) =>
        Cardinality(Running)
            <= (available_memory * Scale) \div job_list[1].memory_estimate

\* C8 (amended): when every job asks for the same amount a, at most
\* floor(B / int(a)) jobs hold a reservation at the same time, and a worker
\* that found no room stays blocked until a worker that released memory
\* notifies it.
C8_AtMostFloorOfReserved ==
    /\ []((Jobs # {} /\ SameAmount) =>
             Cardinality(reserved)
                 <= available_memory \div ToInt(job_list[1].memory_estimate))
    /\ [][\A w \in WorkerIds :
             (pc[w] = "sleep" /\ pc'[w] # "sleep") =>
                 /\ pc'[w] = "woken"
                 /\ \E v \in Workers : pc[v] = "notify" /\ pc'[v] # "notify"
                 /\ cur[w] \notin reserved]_vars

\* as many jobs as fit hold a reservation and a further requester is asleep
C8_Witness ==
    /\ Jobs # {} /\ SameAmount
    /\ Cardinality(Running) = available_memory \div ToInt(job_list[1].memory_estimate)
    /\ \E w \in Workers : pc[w] = "sleep"

\* the lifecycle transitions a job may make
LifecycleOrder ==
    { <<"Created", "Admitted">>,
      <<"Admitted", "Initialized">>, <<"Admitted", "Failed">>,
      <<"Initialized", "Simulated">>, <<"Initialized", "Raised">>,
      <<"Simulated", "Persisted">>, <<"Simulated", "Raised">>,
      <<"Persisted", "Done">> }

\* C9: a job goes through reserve, init, simulate, persist, release in this
\* order: it holds its reservation from admission until it is persisted (or
\* has failed), the reservation is given back only by a persisted job, and
\* Failed is entered only from a failed init step.
C9_LifecycleOrder ==
    /\ [](\A j \in Jobs :
             /\ state[j] = "Created" => j \notin reserved
             /\ state[j] \in {"Admitted", "Initialized", "Simulated"} => j \in reserved
             /\ state[j] = "Done" => j \notin reserved)
    /\ [][\A j \in Jobs :
             /\ state'[j] # state[j] => <<state[j], state'[j]>> \in LifecycleOrder
             /\ (j \in reserved /\ j \notin reserved') => state[j] = "Persisted"
             /\ (state[j] # "Failed" /\ state'[j] = "Failed") =>
                    \E w \in Workers : cur[w] = j /\ pc[w] = "init"]_vars

\* one job has gone through the whole lifecycle and another failed its init
C9_Witness ==
    \E i, j \in Jobs : state[i] = "Done" /\ state[j] = "Failed"

\* C10: no job is handed out twice, and once the run is over every job of
\* the list has been handed to a worker exactly once.
C10_EveryJobTakenOnce ==
    /\ \A j \in Jobs : taken[j] <= 1
    /\ mainpc \in {"done", "aborted"} => \A j \in Jobs : taken[j] = 1

\* ---------------------------------------------------------------------
\* The setup of a run: selection, force and the collection on disk
\* ---------------------------------------------------------------------

\* the name attributes of the scenarios and of the leak configs, as strings
ScenarioNames == {"A", "A.B"}
LeakNames == {"L", "B.L", "*"}

\* the default None of the parameter leak_config_name; no name equals it
PyNone == "<None>"

\* str.startswith
StartsWith(s, prefix) ==
    /\ Len(prefix) <= Len(s)
    /\ SubSeq(s, 1, Len(prefix)) = prefix

\* the f-string f'{scenario_name}.{leak_config_name}'
Dotted(scenario_name, leak_config_name) == scenario_name \o "." \o leak_config_name

\* the entries a selection may hold: SCENARIO.LEAK_CONFIG and SCENARIO.*
Selectors == {Dotted(s, l) : s \in ScenarioNames, l \in LeakNames \cup {"*"}}

\* self.selection: None, or a list of entries
NoSelection == [given |-> FALSE, list |-> {}]
SelectionChoices ==
    {NoSelection} \cup {[given |-> TRUE, list |-> {}]}
                  \cup {[given |-> TRUE, list |-> {e}] : e \in Selectors}

\* is_selected that knows no wildcard entry
is_selected_exact_only(sel, scenario_name, leak_config_name) ==
    IF ~sel.given THEN TRUE
    ELSE IF leak_config_name = PyNone
         THEN \E selected \in sel.list : StartsWith(selected, scenario_name \o ".")
         ELSE Dotted(scenario_name, leak_config_name) \in sel.list

\* is_selected that treats a missing selection as an empty one
is_selected_none_is_empty(sel, scenario_name, leak_config_name) ==
    IF leak_config_name = PyNone
    THEN \E selected \in sel.list : StartsWith(selected, scenario_name \o ".")
    ELSE \/ Dotted(scenario_name, leak_config_name) \in sel.list
         \/ Dotted(scenario_name, "*") \in sel.list

\* ScenarioGenerator.is_selected
is_selected(sel, scenario_name, leak_config_name) ==
    IF ~sel.given THEN TRUE
    ELSE IF leak_config_name = PyNone
         THEN \E selected \in sel.list : StartsWith(selected, scenario_name \o ".")
         ELSE \/ Dotted(scenario_name, leak_config_name) \in sel.list
              \/ Dotted(scenario_name, "*") \in sel.list

\* a Scenario element: its name, its iterations attribute and the names of
\* its leak configs in document order
Scenario(name, iterations, leak_configs) ==
    [name |-> name, iterations |-> iterations, leak_configs |-> leak_configs]

\* the configs looked at: scenarios of both sizes in both orders, names that
\* hold the separator of the selection entries, a leak config named as the
\* wildcard, a scenario alone that may not fit the memory
ConfigChoices ==
    {<<Scenario("A", 1, <<"L", "B.L">>), Scenario("A.B", 10, <<"L">>)>>,
     <<Scenario("A", 10, <<"L">>), Scenario("A.B", 1, <<"L", "B.L">>)>>,
     <<Scenario("A.B", 10, <<"B.L">>), Scenario("A", 10, <<"L">>)>>,
     <<Scenario("A", 1, <<"*", "L">>)>>,
     <<Scenario("A.B", 10, <<"L">>)>>}

\* max_mem - used_memory_baseline of a run, in kB
SetupMemChoices == {124, 245}

\* the files and folders of a scenario below collection_path
Topology(s) == [scenario |-> s, kind |-> "topology", name |-> "topology.xml"]
SensorConfigs(s) == [scenario |-> s, kind |-> "sensors", name |-> "*"]
SensorfaultConfigs(s) == [scenario |-> s, kind |-> "sensorfaults", name |-> "*"]
LeakConfig(s, l) == [scenario |-> s, kind |-> "leaks", name |-> l]
Measurements(s, l) == [scenario |-> s, kind |-> "measurements", name |-> l]

\* the pairs (scenario, leak config) of a config
Pairs(scens) ==
    UNION {{<<scens[i].name, scens[i].leak_configs[k]>> :
                k \in 1..Len(scens[i].leak_configs)} : i \in 1..Len(scens)}

\* shutil.rmtree(path, ignore_errors=True) of the artifacts gone
rmtree(g, gone) ==
    [g EXCEPT !.collection = @ \ gone,
              !.deleted = @ \cup (gone \cap g.collection)]

\* write_xml_warn_if_changed and the writers that end in it
write(g, files) ==
    [g EXCEPT !.collection = @ \cup files,
              !.written = @ \cup files]

\* the body of the loop over the leak configs without the test for existing
\* measurements: a job is appended although the measurements exist
leak_config_step_ignores_measurements(g, s, l, estimated_memory) ==
    LET g1 == IF g.force_regenerate /\ is_selected(g.selection, s, l)
              THEN rmtree(g, {Measurements(s, l)})
              ELSE g
    IN  IF ~is_selected(g.selection, s, l) THEN g1
        ELSE [write(g1, {LeakConfig(s, l)}) EXCEPT
                 !.job_list = Append(@, [scenario |-> s, leak_config_name |-> l,
                                         memory_estimate |-> estimated_memory])]

\* the body of the loop over the leak configs that removes the measurements
\* without looking at the force flag
leak_config_step_always_forced(g, s, l, estimated_memory) ==
    LET g1 == IF is_selected(g.selection, s, l)
              THEN rmtree(g, {Measurements(s, l)})
              ELSE g
    IN  IF ~is_selected(g.selection, s, l) THEN g1
        ELSE IF Measurements(s, l) \in g1.collection THEN g1
        ELSE [write(g1, {LeakConfig(s, l)}) EXCEPT
                 !.job_list = Append(@, [scenario |-> s, leak_config_name |-> l,
                                         memory_estimate |-> estimated_memory])]

\* the body of the loop over the leak configs that, when forced, removes
\* the leak config file together with the measurements
leak_config_step_removes_leak_config(g, s, l, estimated_memory) ==
    LET g1 == IF g.force_regenerate /\ is_selected(g.selection, s, l)
              THEN rmtree(g, {Measurements(s, l), LeakConfig(s, l)})
              ELSE g
    IN  IF ~is_selected(g.selection, s, l) THEN g1
        ELSE IF Measurements(s, l) \in g1.collection THEN g1
        ELSE [write(g1, {LeakConfig(s, l)}) EXCEPT
                 !.job_list = Append(@, [scenario |-> s, leak_config_name |-> l,
                                         memory_estimate |-> estimated_memory])]

\* create_job_list_and_write_configs, the body of the loop over the leak
\* configs of a scenario
leak_config_step(g, s, l, estimated_memory) ==
    LET g1 == IF g.force_regenerate /\ is_selected(g.selection, s, l)
              THEN rmtree(g, {Measurements(s, l)})
              ELSE g
    IN  IF ~is_selected(g.selection, s, l) THEN g1
        ELSE IF Measurements(s, l) \in g1.collection THEN g1
        ELSE [write(g1, {LeakConfig(s, l)}) EXCEPT
                 !.job_list = Append(@, [scenario |-> s, leak_config_name |-> l,
                                         memory_estimate |-> estimated_memory])]

\* the loop over the leak configs of a scenario
RECURSIVE leak_config_loop(_, _, _, _)
leak_config_loop(g, s, leak_configs, estimated_memory) ==
    IF leak_configs = <<>> THEN g
    ELSE leak_config_loop(leak_config_step(g, s, Head(leak_configs), estimated_memory),
                          s, Tail(leak_configs), estimated_memory)

\* the body of the loop over the scenarios that skips no scenario for memory
scenario_step_no_memory_test(g, scenario) ==
    LET s == scenario.name
        g1 == IF g.force_regenerate /\ is_selected(g.selection, s, "*")
              THEN rmtree(g, {a \in g.collection : a.scenario = s})
              ELSE g
        estimated_memory == estimate_wn_memory(scenario.iterations)
        g2 == [write(g1, {Topology(s)}) EXCEPT
                  !.validated = @ \cup {s},
                  !.lowest = IF estimated_memory < @ THEN estimated_memory ELSE @]
    IN  IF ~is_selected(g.selection, s, PyNone) THEN g1
        ELSE leak_config_loop(write(g2, {SensorConfigs(s), SensorfaultConfigs(s)}),
                              s, scenario.leak_configs, estimated_memory)

\* the body of the loop over the scenarios that removes the folder of every
\* forced scenario of which anything is selected
scenario_step_force_removes_scenario(g, scenario) ==
    LET s == scenario.name
        g1 == IF g.force_regenerate /\ is_selected(g.selection, s, PyNone)
              THEN rmtree(g, {a \in g.collection : a.scenario = s})
              ELSE g
        estimated_memory == estimate_wn_memory(scenario.iterations)
        g2 == [write(g1, {Topology(s)}) EXCEPT
                  !.validated = @ \cup {s},
                  !.lowest = IF estimated_memory < @ THEN estimated_memory ELSE @]
    IN  IF ~is_selected(g.selection, s, PyNone) THEN g1
        ELSE IF estimated_memory > g.available_memory * Scale
             THEN [g2 EXCEPT !.errors = @ \cup {s}]
        ELSE leak_config_loop(write(g2, {SensorConfigs(s), SensorfaultConfigs(s)}),
                              s, scenario.leak_configs, estimated_memory)

\* the body of the loop over the scenarios that loads the network and
\* writes the topology before it looks at the selection
scenario_step_selects_late(g, scenario) ==
    LET s == scenario.name
        g1 == IF g.force_regenerate /\ is_selected(g.selection, s, "*")
              THEN rmtree(g, {a \in g.collection : a.scenario = s})
              ELSE g
        estimated_memory == estimate_wn_memory(scenario.iterations)
        g2 == [write(g1, {Topology(s)}) EXCEPT
                  !.validated = @ \cup {s},
                  !.lowest = IF estimated_memory < @ THEN estimated_memory ELSE @]
    IN  IF ~is_selected(g.selection, s, PyNone) THEN g2
        ELSE IF estimated_memory > g.available_memory * Scale
             THEN [g2 EXCEPT !.errors = @ \cup {s}]
        ELSE leak_config_loop(write(g2, {SensorConfigs(s), SensorfaultConfigs(s)}),
                              s, scenario.leak_configs, estimated_memory)

\* create_job_list_and_write_configs, the body of the loop over the scenarios
scenario_step(g, scenario) ==
    LET s == scenario.name
        g1 == IF g.force_regenerate /\ is_selected(g.selection, s, "*")
              THEN rmtree(g, {a \in g.collection : a.scenario = s})
              ELSE g
        estimated_memory == estimate_wn_memory(scenario.iterations)
        g2 == [write(g1, {Topology(s)}) EXCEPT
                  !.validated = @ \cup {s},
                  !.lowest = IF estimated_memory < @ THEN estimated_memory ELSE @]
    IN  IF ~is_selected(g.selection, s, PyNone) THEN g1
        ELSE IF estimated_memory > g.available_memory * Scale
             THEN [g2 EXCEPT !.errors = @ \cup {s}]
        ELSE leak_config_loop(write(g2, {SensorConfigs(s), SensorfaultConfigs(s)}),
                              s, scenario.leak_configs, estimated_memory)

\* a loop that ends after the first scenario
scenario_loop_first_only(g, scens) ==
    IF scens = <<>> THEN g ELSE scenario_step(g, Head(scens))

\* the loop over the scenarios
RECURSIVE scenario_loop(_, _)
scenario_loop(g, scens) ==
    IF scens = <<>> THEN g
    ELSE scenario_loop(scenario_step(g, Head(scens)), Tail(scens))

\* create_job_list_and_write_configs: the generator g before the call gives
\* the generator after it, the thread count clamped
create_job_list_and_write_configs(g, scens) ==
    LET g1 == scenario_loop([g EXCEPT !.job_list = <<>>, !.lowest = LowestInit20], scens)
    IN  [g1 EXCEPT !.n_threads = clamp_threads(g.n_threads, g.available_memory, g1.lowest)]

\* the generator after __init__ and the first lines of run, on the disk given
generator(sel, force, avail, n, disk) ==
    [selection |-> sel, force_regenerate |-> force, available_memory |-> avail,
     n_threads |-> n, collection |-> disk, deleted |-> {}, written |-> {},
     errors |-> {}, validated |-> {}, job_list |-> <<>>, lowest |-> LowestInit20]

\* the measurements folders of a set of jobs of the job list
MeasurementsOf(jobs, S) ==
    {Measurements(jobs[j].scenario, jobs[j].leak_config_name) : j \in S}

\* the pool variables while no pool exists
NoPool ==
    /\ available_memory_shared = 0
    /\ lock = 0
    /\ pc = [w \in WorkerIds |-> "idle"]
    /\ cur = [w \in WorkerIds |-> 0]
    /\ next = 1
    /\ taken = <<>>
    /\ state = <<>>
    /\ reserved = {}
    /\ outqueue = <<>>
    /\ progress = 0
    /\ mainpc = "setup"

\* a config file and an empty collection folder, no run yet
SetupInit ==
    /\ scenarios \in ConfigChoices
    /\ selection = NoSelection
    /\ force_regenerate = FALSE
    /\ collection = {}
    /\ deleted = {}
    /\ written = {}
    /\ errors = {}
    /\ validated = {}
    /\ simulations = 0
    /\ n_threads_arg = 1
    /\ genpc = "start"
    /\ available_memory = 0
    /\ n_threads = 1
    /\ job_list = <<>>
    /\ NoPool
    /\ NoMasks
    /\ NoLoads
    /\ NoWrites
    /\ NoPattern

\* a run of the generator from __init__ to the end of
\* create_job_list_and_write_configs, on the collection as it is on disk
CreateJobs(sel, force, avail, n) ==
    /\ genpc \in {"start", "exited"}
    /\ \E g \in {create_job_list_and_write_configs(
                    generator(sel, force, avail, n, collection), scenarios)} :
           /\ collection' = g.collection
           /\ deleted' = g.deleted
           /\ written' = g.written
           /\ errors' = g.errors
           /\ validated' = g.validated
           /\ job_list' = g.job_list
           /\ n_threads' = g.n_threads
    /\ selection' = sel
    /\ force_regenerate' = force
    /\ available_memory' = avail
    /\ n_threads_arg' = n
    /\ simulations' = 0
    /\ genpc' = "pool"
    /\ UNCHANGED <<scenarios, workervars, maskvars, loadvars, writevars, patternvars>>

\* multiprocessing.Pool refuses a process count below 1: the run ends with
\* no job simulated
PoolError ==
    /\ genpc = "pool"
    /\ n_threads < 1
    /\ genpc' = "exited"
    /\ UNCHANGED <<available_memory, n_threads, job_list, workervars, scenarios,
                   selection, force_regenerate, collection, deleted, written, errors,
                   validated, simulations, n_threads_arg, maskvars, loadvars, writevars, patternvars>>

\* a pool run in which every job makes its measurements folder, whether
\* it got past init or not
RunPool_saves_without_init(simulated, saved) ==
    /\ genpc = "pool"
    /\ n_threads >= 1
    /\ saved \subseteq simulated
    /\ simulated \subseteq 1..Len(job_list)
    /\ simulations' = Cardinality(simulated)
    /\ collection' = collection \cup MeasurementsOf(job_list, 1..Len(job_list))
    /\ written' = written \cup MeasurementsOf(job_list, 1..Len(job_list))
    /\ genpc' = "exited"
    /\ UNCHANGED <<available_memory, n_threads, job_list, workervars, scenarios,
                   selection, force_regenerate, deleted, errors, validated,
                   n_threads_arg, maskvars, loadvars, writevars, patternvars>>

\* the pool run as a whole: the simulator is invoked for the jobs of
\* simulated, and the jobs of saved get as far as the makedirs of save
RunPool(simulated, saved) ==
    /\ genpc = "pool"
    /\ n_threads >= 1
    /\ saved \subseteq simulated
    /\ simulated \subseteq 1..Len(job_list)
    /\ simulations' = Cardinality(simulated)
    /\ collection' = collection \cup MeasurementsOf(job_list, saved)
    /\ written' = written \cup MeasurementsOf(job_list, saved)
    /\ genpc' = "exited"
    /\ UNCHANGED <<available_memory, n_threads, job_list, workervars, scenarios,
                   selection, force_regenerate, deleted, errors, validated,
                   n_threads_arg, maskvars, loadvars, writevars, patternvars>>

SetupNext ==
    \/ \E sel \in SelectionChoices, force \in BOOLEAN, avail \in SetupMemChoices,
          n \in 1..MaxThreads : CreateJobs(sel, force, avail, n)
    \/ PoolError
    \/ \E saved \in SUBSET (1..Len(job_list)) :
          \E simulated \in {saved, 1..Len(job_list)} : RunPool(simulated, saved)

SpecSetup == SetupInit /\ [][SetupNext]_vars

\* the artifacts the configs of the model can put on disk
Artifacts ==
    UNION {{Topology(s), SensorConfigs(s), SensorfaultConfigs(s)} : s \in ScenarioNames}
        \cup {LeakConfig(s, l) : s \in ScenarioNames, l \in LeakNames}
        \cup {Measurements(s, l) : s \in ScenarioNames, l \in LeakNames}

SetupTypeOK ==
    /\ scenarios \in ConfigChoices
    /\ selection \in SelectionChoices
    /\ force_regenerate \in BOOLEAN
    /\ collection \subseteq Artifacts
    /\ deleted \subseteq Artifacts
    /\ written \subseteq Artifacts
    /\ errors \subseteq ScenarioNames
    /\ validated \subseteq ScenarioNames
    /\ simulations \in 0..Len(job_list)
    /\ n_threads_arg \in 1..MaxThreads
    /\ n_threads \in 0..MaxThreads
    /\ genpc \in {"start", "pool", "exited"}

\* ---------------------------------------------------------------------
\* Properties of the setup
\* ---------------------------------------------------------------------

\* a config without its i-th scenario
Without(scens, i) == SubSeq(scens, 1, i - 1) \o SubSeq(scens, i + 1, Len(scens))

\* the scenario is looked at by the run and its estimate exceeds the memory
OverBudget(scenario, sel, avail) ==
    /\ is_selected(sel, scenario.name, PyNone)
    /\ estimate_wn_memory(scenario.iterations) > avail * Scale

\* the pairs the job list holds a job for
JobPairs(jobs) == {<<jobs[j].scenario, jobs[j].leak_config_name>> : j \in 1..Len(jobs)}

\* C11: a selected scenario whose estimate exceeds the available memory gets
\* no job and is reported as an error, and the job list is the one the run
\* would create from the same disk for the config without that scenario
C11_OverBudgetScenarioSkipped ==
    [][(genpc # "pool" /\ genpc' = "pool") =>
         \A i \in 1..Len(scenarios) :
            OverBudget(scenarios[i], selection', available_memory') =>
               /\ \A p \in JobPairs(job_list') : p[1] # scenarios[i].name
               /\ scenarios[i].name \in errors'
               /\ job_list' = create_job_list_and_write_configs(
                                  generator(selection', force_regenerate',
                                            available_memory', n_threads_arg',
                                            collection),
                                  Without(scenarios, i)).job_list]_vars

\* a scenario was skipped for its memory while another one got a job
C11_Witness ==
    /\ genpc = "pool"
    /\ errors # {}
    /\ job_list # <<>>
    /\ \E i \in 1..Len(scenarios) :
          OverBudget(scenarios[i], selection, available_memory)

\* C12: with force off, after the job list is created no job is in it for a
\* pair whose measurements folder is on disk, and no measurements folder was
\* removed
C12_NoOverwriteWithoutForce ==
    (genpc = "pool" /\ ~force_regenerate) =>
        /\ \A p \in JobPairs(job_list) : Measurements(p[1], p[2]) \notin collection
        /\ \A a \in deleted : a.kind # "measurements"

\* a run without force met the measurements of a selected pair and left them
C12_Witness ==
    /\ genpc = "pool"
    /\ ~force_regenerate
    /\ \E p \in Pairs(scenarios) :
          /\ is_selected(selection, p[1], p[2])
          /\ Measurements(p[1], p[2]) \in collection
          /\ p \notin JobPairs(job_list)
    /\ job_list # <<>>

\* a run of the generator begins on the collection a former run has left
SecondRun == genpc = "exited" /\ genpc' = "pool"

\* C13 as stated: a second run without force creates no job and invokes the
\* simulator zero times
C13_SecondRunCreatesNoJob ==
    [][/\ (SecondRun /\ ~force_regenerate') => job_list' = <<>>
       /\ (genpc = "pool" /\ genpc' = "exited" /\ job_list = <<>>) => simulations' = 0]_vars

\* C13 amended: a second run without force and with the same selection, after
\* a run that skipped no scenario for its memory and in which every job got
\* its measurements folder, creates no job and invokes the simulator zero
\* times
C13_SecondRunAfterCompleteRun ==
    [][/\ ( /\ SecondRun
            /\ ~force_regenerate'
            /\ selection' = selection
            /\ errors = {}
            /\ MeasurementsOf(job_list, 1..Len(job_list)) \subseteq collection )
          => job_list' = <<>>
       /\ (genpc = "pool" /\ genpc' = "exited" /\ job_list = <<>>) => simulations' = 0]_vars

\* a run without force has ended that found the measurements of every
\* selected pair on disk: no job, no simulation
C13_Witness ==
    /\ genpc = "exited"
    /\ ~force_regenerate
    /\ errors = {}
    /\ validated # {}
    /\ job_list = <<>>
    /\ simulations = 0
    /\ \E p \in Pairs(scenarios) : is_selected(selection, p[1], p[2])
    /\ \A p \in Pairs(scenarios) :
          is_selected(selection, p[1], p[2]) => Measurements(p[1], p[2]) \in collection

\* the selection that holds the one entry e
Only(e) == [given |-> TRUE, list |-> {e}]

\* the name holds the separator of the selection entries
HasDot(name) == \E i \in 1..Len(name) : SubSeq(name, i, i) = "."

\* a name that reads in one way only inside an entry SCENARIO.LEAK_CONFIG
PlainScenario(name) == ~HasDot(name)
PlainLeakConfig(name) == ~HasDot(name) /\ name # "*"

\* C14 as stated: a run with force and the one entry A.L1 removes no
\* measurements but those of (A, L1), writes none but those, and creates a
\* job for no other pair; it creates the job of (A, L1) unless A is skipped
C14_ForceOnlySelectedPair ==
    (genpc \in {"pool", "exited"} /\ force_regenerate) =>
        \A p \in Pairs(scenarios) :
            selection = Only(Dotted(p[1], p[2])) =>
                /\ p[1] \notin errors => p \in JobPairs(job_list)
                /\ \A q \in Pairs(scenarios) \ {p} :
                      /\ Measurements(q[1], q[2]) \notin deleted \cup written
                      /\ q \notin JobPairs(job_list)

\* C14 amended: the same for names A and L1 that hold no '.', L1 not '*'
C14_ForceOnlySelectedPlainPair ==
    (genpc \in {"pool", "exited"} /\ force_regenerate) =>
        \A p \in Pairs(scenarios) :
            ( /\ selection = Only(Dotted(p[1], p[2]))
              /\ PlainScenario(p[1])
              /\ PlainLeakConfig(p[2]) ) =>
                /\ p[1] \notin errors => p \in JobPairs(job_list)
                /\ \A q \in Pairs(scenarios) \ {p} :
                      /\ Measurements(q[1], q[2]) \notin deleted \cup written
                      /\ q \notin JobPairs(job_list)

\* a run with force and the entry A.L has removed and rewritten the
\* measurements of (A, L) while the measurements of another pair stayed
C14_Witness ==
    /\ genpc = "exited"
    /\ force_regenerate
    /\ selection = Only(Dotted("A", "L"))
    /\ Measurements("A", "L") \in deleted \cap written
    /\ \E q \in Pairs(scenarios) \ {<<"A", "L">>} :
          Measurements(q[1], q[2]) \in collection

\* C15 as stated: the entry A.* selects every leak config of A and none of
\* another scenario; the entry A.L1 selects the pair (A, L1) and no other
C15_SelectionMatching ==
    \A a \in ScenarioNames, l1 \in LeakNames :
        /\ selection = Only(Dotted(a, "*")) =>
              /\ \A l \in LeakNames : is_selected(selection, a, l)
              /\ \A b \in ScenarioNames \ {a}, l \in LeakNames :
                    ~is_selected(selection, b, l)
        /\ selection = Only(Dotted(a, l1)) =>
              \A s \in ScenarioNames, l \in LeakNames :
                  is_selected(selection, s, l) <=> (s = a /\ l = l1)

\* C15 amended: the same for a scenario name A that holds no '.' and a leak
\* config name L1 that holds no '.' and is not '*'
C15_PlainSelectionMatching ==
    \A a \in ScenarioNames, l1 \in LeakNames :
        PlainScenario(a) =>
            /\ selection = Only(Dotted(a, "*")) =>
                  /\ \A l \in LeakNames : is_selected(selection, a, l)
                  /\ \A b \in ScenarioNames \ {a}, l \in LeakNames :
                        ~is_selected(selection, b, l)
            /\ (PlainLeakConfig(l1) /\ selection = Only(Dotted(a, l1))) =>
                  \A s \in ScenarioNames, l \in LeakNames :
                      is_selected(selection, s, l) <=> (s = a /\ l = l1)

\* a run with the entry A.* has given a job to every leak config of A and
\* to none of the other scenario
C15_Witness ==
    /\ genpc = "pool"
    /\ selection = Only(Dotted("A", "*"))
    /\ Len(scenarios) > 1
    /\ JobPairs(job_list) = {p \in Pairs(scenarios) : p[1] = "A"}
    /\ Len(job_list) > 1

EstimateOf(scens, name) ==
    LET i == CHOOSE k \in 1..Len(scens) : scens[k].name = name
    IN  estimate_wn_memory(scens[i].iterations)

\* C17: the job list holds a job for the pairs that are selected, whose
\* scenario fits the available memory and whose measurements folder is not
\* on disk after the force pass, for no other pair, and no pair twice
C17_ExactlyTheSurvivingPairs ==
    genpc = "pool" =>
        /\ JobPairs(job_list) =
              {p \in Pairs(scenarios) :
                  /\ is_selected(selection, p[1], p[2])
                  /\ EstimateOf(scenarios, p[1]) <= available_memory * Scale
                  /\ Measurements(p[1], p[2]) \notin collection}
        /\ Cardinality(JobPairs(job_list)) = Len(job_list)

\* a job list that holds a job while one pair was dropped for its
\* measurements on disk and another for the memory of its scenario
C17_Witness ==
    /\ genpc = "pool"
    /\ job_list # <<>>
    /\ \E p \in Pairs(scenarios) :
          /\ is_selected(selection, p[1], p[2])
          /\ Measurements(p[1], p[2]) \in collection
          /\ p[1] \notin errors
    /\ \E p \in Pairs(scenarios) : p[1] \in errors

Min(a, b) == IF a < b THEN a ELSE b

\* the lowest estimate among the scenarios of the given names
SmallestEstimate(scens, considered) ==
    LET E == {EstimateOf(scens, name) : name \in considered}
    IN  CHOOSE e \in E : \A f \in E : e <= f

\* C18: when a scenario was considered, the thread count of the pool is
\* min(requested, floor(available / smallest estimate of those considered))
C18_EffectiveWorkerCount ==
    (genpc = "pool" /\ validated # {}) =>
        n_threads = Min(n_threads_arg,
                        (available_memory * Scale)
                            \div SmallestEstimate(scenarios, validated))

\* two threads were asked for, two scenarios were considered, the memory
\* holds one of the smaller
C18_Witness ==
    /\ genpc = "pool"
    /\ Cardinality(validated) = 2
    /\ n_threads_arg = 2
    /\ n_threads = 1
    /\ job_list # <<>>

\* ---------------------------------------------------------------------
\* The sensor masks
\* ---------------------------------------------------------------------

MaxSensorConfigs == 2

\* the tags of the sensor collections of a sensor config, the keys of a mask
SensorTags == {"PressureSensors", "FlowSensors", "DemandSensors"}
SensorTypes == {"pressure", "flow", "demand"}

\* the id attributes of the sensors of a sensor collection, in document order
SensorIdLists == {<<"n1">>, <<"n2", "n1">>, <<"n1", "n1">>}

\* a sensor collection: its tag and its sensors
SensorCollection(tag, ids) == [tag |-> tag, ids |-> ids]

\* a sensor config: its sensor collections
SensorConfigChoices ==
    {<<SensorCollection(tag, ids)>> : tag \in SensorTags, ids \in SensorIdLists}
        \cup {<<SensorCollection("PressureSensors", ids),
                SensorCollection("DemandSensors", <<"n2">>)>> : ids \in SensorIdLists}

\* the SensorConfigs of the configs looked at: one scenario with any sensor
\* configs, alone or before a second scenario
SensorScenarioChoices ==
    LET first == {[name |-> "A", sensor_configs |-> cs] :
                     cs \in SeqsUpTo(SensorConfigChoices, MaxSensorConfigs)}
        second == {[name |-> "A.B", sensor_configs |-> cs] :
                     cs \in {<<>>, <<<<SensorCollection("FlowSensors", <<"p1", "p2">>)>>>>}}
    IN  {<<a>> : a \in first} \cup {<<a, b>> : a \in first, b \in second}

\* str.lower of one character of a tag
LowerChar(c) ==
    CASE c = "P" -> "p"
      [] c = "F" -> "f"
      [] c = "D" -> "d"
      [] c = "S" -> "s"
      [] OTHER -> c

\* str.lower
RECURSIVE lower(_)
lower(str) ==
    IF Len(str) = 0 THEN ""
    ELSE LowerChar(SubSeq(str, 1, 1)) \o lower(SubSeq(str, 2, Len(str)))

\* sensor_collection.tag[:-7].lower()
sensor_type_of(tag) == lower(SubSeq(tag, 1, Len(tag) - 7))

\* a loop over the sensors that keeps the last sensor only
RECURSIVE add_sensors_keeps_last(_, _, _)
add_sensors_keeps_last(mask, sensor_type, ids) ==
    IF ids = <<>> THEN mask
    ELSE add_sensors_keeps_last([mask EXCEPT ![sensor_type] = {Head(ids)}],
                                sensor_type, Tail(ids))

\* for sensor in sensor_collection: mask[sensor_type].add(sensor.attrib['id'])
RECURSIVE add_sensors(_, _, _)
add_sensors(mask, sensor_type, ids) ==
    IF ids = <<>> THEN mask
    ELSE add_sensors([mask EXCEPT ![sensor_type] = @ \cup {Head(ids)}],
                     sensor_type, Tail(ids))

\* for sensor_collection in sensor_config
RECURSIVE sensor_collection_loop(_, _)
sensor_collection_loop(mask, sensor_config) ==
    IF sensor_config = <<>> THEN mask
    ELSE sensor_collection_loop(
             add_sensors(mask, sensor_type_of(Head(sensor_config).tag),
                         Head(sensor_config).ids),
             Tail(sensor_config))

\* for sensor_config in config_collection
RECURSIVE sensor_config_loop(_, _)
sensor_config_loop(mask, sensor_configs) ==
    IF sensor_configs = <<>> THEN mask
    ELSE sensor_config_loop(sensor_collection_loop(mask, Head(sensor_configs)),
                            Tail(sensor_configs))

\* the entry a scenario starts with
EmptyMask == [pressure |-> {}, flow |-> {}, demand |-> {}]

\* the loop over the scenarios of create_sensor_masks: masks is the dict so far
RECURSIVE sensor_masks_loop(_, _)
sensor_masks_loop(masks, scens) ==
    IF scens = <<>> THEN masks
    ELSE LET scenario_name == Head(scens).name
             mask == sensor_config_loop(EmptyMask, Head(scens).sensor_configs)
         IN  sensor_masks_loop(
                 [n \in DOMAIN masks \cup {scenario_name} |->
                     IF n = scenario_name THEN mask ELSE masks[n]],
                 Tail(scens))

\* ScenarioGenerator.create_sensor_masks
create_sensor_masks(scens) == sensor_masks_loop([n \in {} |-> EmptyMask], scens)

\* the generator variables while only the masks are looked at
NoSetup ==
    /\ scenarios = <<>>
    /\ selection = NoSelection
    /\ force_regenerate = FALSE
    /\ collection = {}
    /\ deleted = {}
    /\ written = {}
    /\ errors = {}
    /\ validated = {}
    /\ simulations = 0
    /\ n_threads_arg = 1
    /\ genpc = "start"
    /\ available_memory = 0
    /\ n_threads = 1
    /\ job_list = <<>>

MasksInit ==
    /\ sensor_scenarios \in SensorScenarioChoices
    /\ sensor_masks = <<>>
    /\ maskpc = "start"
    /\ NoSetup
    /\ NoPool
    /\ NoLoads
    /\ NoWrites
    /\ NoPattern

\* the call of create_sensor_masks in run
CreateSensorMasks ==
    /\ maskpc = "start"
    /\ sensor_masks' = create_sensor_masks(sensor_scenarios)
    /\ maskpc' = "done"
    /\ UNCHANGED <<sensor_scenarios, available_memory, n_threads, job_list,
                   workervars, setupvars, loadvars, writevars, patternvars>>

MasksNext == CreateSensorMasks

SpecMasks == MasksInit /\ [][MasksNext]_vars

\* the tag of the sensor collections of a sensor type
TagOf(sensor_type) ==
    CASE sensor_type = "pressure" -> "PressureSensors"
      [] sensor_type = "flow" -> "FlowSensors"
      [] sensor_type = "demand" -> "DemandSensors"

\* the elements of a list
Range(seq) == {seq[i] : i \in 1..Len(seq)}

\* the ids of a sensor type listed in any sensor config of a scenario
ListedIds(scenario, sensor_type) ==
    UNION {Range(sensor_collection.ids) :
              sensor_collection \in
                  {c \in UNION {Range(sensor_config) :
                                   sensor_config \in Range(scenario.sensor_configs)} :
                      c.tag = TagOf(sensor_type)}}

\* C19: for every scenario and every sensor type the mask is the set of the
\* ids of that type listed in the sensor configs of the scenario
C19_MaskIsUnionOfSensorConfigs ==
    maskpc = "done" =>
        \A i \in 1..Len(sensor_scenarios) :
            /\ sensor_scenarios[i].name \in DOMAIN sensor_masks
            /\ \A sensor_type \in SensorTypes :
                  sensor_masks[sensor_scenarios[i].name][sensor_type]
                      = ListedIds(sensor_scenarios[i], sensor_type)

\* the masks of a scenario whose two sensor configs list n1 twice and n2 once
C19_Witness ==
    /\ maskpc = "done"
    /\ Len(sensor_scenarios) = 2
    /\ Len(sensor_scenarios[1].sensor_configs) = 2
    /\ sensor_scenarios[1].sensor_configs[1] = <<SensorCollection("PressureSensors", <<"n1", "n1">>)>>
    /\ sensor_scenarios[1].sensor_configs[2] = <<SensorCollection("PressureSensors", <<"n2", "n1">>)>>
    /\ sensor_masks["A"].pressure = {"n1", "n2"}
    /\ sensor_masks["A.B"].flow = {"p1", "p2"}

\* ---------------------------------------------------------------------
\* The loader: Scenario.get and the sensor faults
\* ---------------------------------------------------------------------

MaxFaults == 2
MaxLoads == 2
Samples == 3

\* a sample of a column: a number plus coef times a draw of the generator
\* for each draw added to it
Sample(v) == [v |-> v, noise |-> {}]

\* the columns of the measurement files of the leak config
FileColumns == [pressure |-> {"n1", "n2"}, flow |-> {"p1"}, demand |-> {"n1"}]

\* the value on disk of a column at time index t
FileValue(part_id, t) ==
    CASE part_id = "n1" -> 10 + t
      [] part_id = "n2" -> 20 + t
      [] OTHER -> 30 + t

\* the measurement files as SimulationJob.save has written them
MeasurementFiles ==
    [sensor_type \in {"pressure", "flow", "demand"} |->
        [part_id \in FileColumns[sensor_type] |->
            [t \in 1..Samples |-> Sample(FileValue(part_id, t))]]]

\* pd.read_csv / pd.read_pickle of the file of a sensor type
read_file(files, sensor_type) == files[sensor_type]

\* the sensor configs a load may name: the mask each one gives, by tag
LoadMaskChoices ==
    {[PressureSensors |-> {"n1", "n2"}, FlowSensors |-> {"p1"}, DemandSensors |-> {"n1"}],
     [PressureSensors |-> {"n2"}, FlowSensors |-> {"p1"}, DemandSensors |-> {}],
     [PressureSensors |-> {"n1"}, FlowSensors |-> {}, DemandSensors |-> {"n1"}]}

\* df.loc[:, mask]
loc(df, columns) == [part_id \in columns |-> df[part_id]]

\* a Sensorfault element; has_param tells whether it has the attribute faultParam
Sensorfault(part_id, sensor_type, start, end, fault_type, has_param, fault_param) ==
    [partId |-> part_id, sensorType |-> sensor_type, start |-> start, end |-> end,
     faultType |-> fault_type, has_param |-> has_param, faultParam |-> fault_param]

\* the sensorfaults a config may list
SensorfaultChoices ==
    {Sensorfault("n1", "pressure", 0, 2, "normal", TRUE, 2),
     Sensorfault("n2", "pressure", 1, 3, "normal", TRUE, 1),
     Sensorfault("n1", "pressure", 0, 2, "normal", FALSE, 0),
     Sensorfault("n2", "pressure", 0, 2, "shift", TRUE, 2),
     Sensorfault("n1", "pressure", 1, 3, "stuckzero", FALSE, 0),
     Sensorfault("n1", "pressure", 0, 2, "constant", TRUE, 5),
     Sensorfault("n2", "pressure", 1, 3, "drift", TRUE, 2),
     Sensorfault("n2", "pressure", 0, 2, "percentage", TRUE, 1),
     Sensorfault("n1", "flow", 0, 2, "shift", TRUE, 1),
     Sensorfault("n2", "pressure", 0, 2, "triangle", TRUE, 1)}

\* int(hashlib.sha1(text).hexdigest(), 16): one seed for one file content
seed_of(text) == text

\* the rng after default_rng(seed): nothing drawn yet
default_rng(seed) == [seed |-> seed, drawn |-> 0]

\* rng.normal(loc, scale, size): the values drawn, each loc + scale * z for
\* the next draw z of the stream
normal(rng, location, scale, size) ==
    [k \in 1..size |->
        [location |-> location, scale |-> scale,
         z |-> [seed |-> rng.seed, pos |-> rng.drawn + k]]]

\* the rng after size draws
advance(rng, size) == [rng EXCEPT !.drawn = @ + size]

\* a variant of the window that takes start and end as the first and the
\* last row, both counted from 1
Window_inclusive(start, end) == {t \in 1..Samples : start <= t /\ t <= end}

\* the time indices of df.iloc[start:end], counted from 1
Window(start, end) == {t \in 1..Samples : start < t /\ t <= end}

\* a variant of _apply_sensorfault whose percentage fault adds faultParam
\* to the window and whose stuckzero fault lowers the window by one
apply_sensorfault_percentage_adds(df, start, end, fault_type, fault_param, rng) ==
    [df |-> [t \in 1..Samples |->
                IF t \in Window(start, end) /\ fault_type = "percentage"
                THEN [df[t] EXCEPT !.v = @ + fault_param]
                ELSE IF t \in Window(start, end) /\ fault_type = "stuckzero"
                THEN [df[t] EXCEPT !.v = @ - 1]
                ELSE df[t]],
     rng |-> rng,
     values |-> <<>>]

\* a variant of _apply_sensorfault whose drift counts the samples of the
\* window from 0
apply_sensorfault_drift_from_zero(df, start, end, fault_type, fault_param, rng) ==
    [df |-> [t \in 1..Samples |->
                IF t \in Window(start, end) /\ fault_type = "drift"
                THEN [df[t] EXCEPT !.v = @ + fault_param * (t - start - 1)]
                ELSE df[t]],
     rng |-> rng,
     values |-> <<>>]

\* _apply_sensorfault: the column and the rng after the fault, and the
\* values the rng gave
apply_sensorfault(df, start, end, fault_type, fault_param, rng) ==
    LET values == normal(rng, 1, fault_param, end - start)
        changed(t) ==
            CASE fault_type = "constant" -> Sample(fault_param)
              [] fault_type = "drift" ->
                    [df[t] EXCEPT !.v = @ + fault_param * (t - start)]
              [] fault_type = "normal" ->
                    [df[t] EXCEPT
                        !.v = @ + values[t - start].location,
                        !.noise = @ \cup {[z |-> values[t - start].z,
                                           coef |-> values[t - start].scale]}]
              [] fault_type = "percentage" ->
                    [v |-> df[t].v * fault_param,
                     noise |-> {[z |-> n.z, coef |-> n.coef * fault_param] :
                                   n \in df[t].noise}]
              [] fault_type = "shift" -> [df[t] EXCEPT !.v = @ + fault_param]
              [] fault_type = "stuckzero" -> Sample(0)
              [] OTHER -> df[t]
    IN  [df |-> [t \in 1..Samples |->
                    IF t \in Window(start, end) THEN changed(t) ELSE df[t]],
         rng |-> IF fault_type = "normal" THEN advance(rng, end - start) ELSE rng,
         values |-> IF fault_type = "normal" THEN values ELSE <<>>]

\* data[sensor_type].loc[:, part_id] = column
assign(data, sensor_type, part_id, column) ==
    [s \in DOMAIN data |->
        [p \in DOMAIN data[s] |->
            IF s = sensor_type /\ p = part_id THEN column ELSE data[s][p]]]

\* a variant of the loop body without the test for a missing faultParam
sensorfault_step_applies_without_param(l, config) ==
    LET r == apply_sensorfault(l.data[config.sensorType][config.partId],
                               config.start, config.end, config.faultType,
                               config.faultParam, l.rng)
    IN  IF config.partId \notin DOMAIN l.data[config.sensorType]
        THEN [l EXCEPT !.added = Append(@, <<>>)]
        ELSE [data |-> assign(l.data, config.sensorType, config.partId, r.df),
              rng |-> r.rng,
              added |-> Append(l.added, r.values)]

\* a variant of the loop body without the test for the column: the fault
\* is applied to the column of the file
sensorfault_step_adds_column(l, config) ==
    LET column == MeasurementFiles[config.sensorType][config.partId]
        r == apply_sensorfault(column, config.start, config.end,
                               config.faultType, config.faultParam, l.rng)
    IN  IF config.partId \notin DOMAIN MeasurementFiles[config.sensorType]
           \/ (~config.has_param /\ config.faultType # "stuckzero")
        THEN [l EXCEPT !.added = Append(@, <<>>)]
        ELSE [data |-> [l.data EXCEPT ![config.sensorType] =
                           [part_id \in DOMAIN @ \cup {config.partId} |->
                               IF part_id = config.partId THEN r.df
                               ELSE @[part_id]]],
              rng |-> r.rng,
              added |-> Append(l.added, r.values)]

\* Scenario.get, the body of the loop over the sensorfaults: l holds the
\* data, the rng and, for each fault so far, the values the rng gave for it
sensorfault_step(l, config) ==
    LET skipped == [l EXCEPT !.added = Append(@, <<>>)]
        r == apply_sensorfault(l.data[config.sensorType][config.partId],
                               config.start, config.end, config.faultType,
                               config.faultParam, l.rng)
    IN  IF config.partId \notin DOMAIN l.data[config.sensorType] THEN skipped
        ELSE IF ~config.has_param /\ config.faultType # "stuckzero" THEN skipped
        ELSE [data |-> assign(l.data, config.sensorType, config.partId, r.df),
              rng |-> r.rng,
              added |-> Append(l.added, r.values)]

\* for config in sensorfault_config
RECURSIVE sensorfault_loop(_, _)
sensorfault_loop(l, configs) ==
    IF configs = <<>> THEN l
    ELSE sensorfault_loop(sensorfault_step(l, Head(configs)), Tail(configs))

\* Scenario.get from the reading of the sensor config to the end of the
\* loop over the sensorfaults, for an rng of the given seed
load(files, mask, sensorfaults, seed) ==
    LET data == [demand |-> loc(read_file(files, "demand"), mask.DemandSensors),
                 flow |-> loc(read_file(files, "flow"), mask.FlowSensors),
                 pressure |-> loc(read_file(files, "pressure"), mask.PressureSensors)]
    IN  sensorfault_loop([data |-> data, rng |-> default_rng(seed), added |-> <<>>],
                         sensorfaults)

\* Scenario.get for a sensor config with the given mask and a sensorfault
\* config with the given faults
get(files, mask, sensorfaults) ==
    LET l == load(files, mask, sensorfaults, seed_of(sensorfaults))
    IN  [mask |-> mask, sensorfaults |-> sensorfaults,
         data |-> l.data, added |-> l.added]

\* the sensorfault configs of the scenario: the one looked at, and one
\* without faults
FaultConfigChoices == {sensorfault_config, <<>>}

LoadInit ==
    /\ sensorfault_config \in SeqsUpTo(SensorfaultChoices, MaxFaults)
    /\ measurement_files = MeasurementFiles
    /\ loads = <<>>
    /\ NoSetup
    /\ NoPool
    /\ NoMasks
    /\ NoWrites
    /\ NoPattern

\* a variant of Scenario.get that saves the data it returns to the
\* measurement files
Get_writes_back(mask, sensorfaults) ==
    /\ Len(loads) < MaxLoads
    /\ loads' = Append(loads, get(measurement_files, mask, sensorfaults))
    /\ measurement_files' =
          [sensor_type \in DOMAIN measurement_files |->
              [part_id \in DOMAIN measurement_files[sensor_type] |->
                  LET data == get(measurement_files, mask, sensorfaults).data
                  IN  IF part_id \in DOMAIN data[sensor_type]
                      THEN data[sensor_type][part_id]
                      ELSE measurement_files[sensor_type][part_id]]]
    /\ UNCHANGED <<sensorfault_config, available_memory,
                   n_threads, job_list, workervars, setupvars, maskvars,
                   writevars, patternvars>>

\* a call of Scenario.get that names the sensor config of the given mask
\* and the sensorfault config of the given faults
Get(mask, sensorfaults) ==
    /\ Len(loads) < MaxLoads
    /\ loads' = Append(loads, get(measurement_files, mask, sensorfaults))
    /\ UNCHANGED <<sensorfault_config, measurement_files, available_memory,
                   n_threads, job_list, workervars, setupvars, maskvars,
                   writevars, patternvars>>

LoadNext ==
    \E mask \in LoadMaskChoices, sensorfaults \in FaultConfigChoices :
        Get(mask, sensorfaults)

SpecLoad == LoadInit /\ [][LoadNext]_vars

\* C20: two loads of the same sensorfault config get the same values from
\* the rng for each normal fault that both of them apply
C20_NormalFaultsRepeatable ==
    \A a \in 1..Len(loads), b \in 1..Len(loads) :
        \A i \in 1..Len(sensorfault_config) :
            ( /\ loads[a].sensorfaults = sensorfault_config
              /\ loads[b].sensorfaults = sensorfault_config
              /\ sensorfault_config[i].faultType = "normal"
              /\ loads[a].added[i] # <<>>
              /\ loads[b].added[i] # <<>> )
            => loads[a].added[i] = loads[b].added[i]


\* the load that returned last, if there is one: every load is the latest
\* in the state its call leads to
latest == {Len(loads)} \ {0}

\* Scenario.get of a load, stopped after the first n sensorfaults of its
\* sensorfault config: the data and the rng at that point of the loop
after_faults(ld, n) ==
    load(measurement_files, ld.mask, SubSeq(ld.sensorfaults, 1, n),
         seed_of(ld.sensorfaults))

\* the sensorfault applies: its part is a column of the masked table and
\* its parameter is there where the type needs one
applies(ld, n) ==
    LET config == ld.sensorfaults[n]
    IN  /\ config.partId \in DOMAIN after_faults(ld, n - 1).data[config.sensorType]
        /\ config.has_param \/ config.faultType = "stuckzero"

\* two sensorfaults over the same window of the same column
same_window(a, b) ==
    /\ a.partId = b.partId
    /\ a.sensorType = b.sensorType
    /\ a.start = b.start
    /\ a.end = b.end

\* C21: in every load, a stuckzero fault that follows a stuckzero fault over the same
\* window leaves the data as the first one left it, and a percentage fault
\* with faultParam = 1 leaves the data as it found it.
C21_StuckzeroIdempotentPercentageOneNeutral ==
    \A k \in latest :
        \A n \in 1..Len(loads[k].sensorfaults) :
            LET config == loads[k].sensorfaults[n]
            IN  /\ ( /\ n > 1
                     /\ config.faultType = "stuckzero"
                     /\ loads[k].sensorfaults[n - 1].faultType = "stuckzero"
                     /\ same_window(config, loads[k].sensorfaults[n - 1]) )
                   => after_faults(loads[k], n).data
                        = after_faults(loads[k], n - 1).data
                /\ ( /\ config.faultType = "percentage"
                     /\ config.has_param
                     /\ config.faultParam = 1 )
                   => after_faults(loads[k], n).data
                        = after_faults(loads[k], n - 1).data

\* a load in which a stuckzero fault was applied twice to a column that was
\* not zero there
C21_Witness ==
    \E k \in 1..Len(loads) :
        /\ Len(loads[k].sensorfaults) = 2
        /\ loads[k].sensorfaults[1].faultType = "stuckzero"
        /\ loads[k].sensorfaults[2] = loads[k].sensorfaults[1]
        /\ applies(loads[k], 2)
        /\ after_faults(loads[k], 1).data # after_faults(loads[k], 0).data
        /\ loads[k].data = after_faults(loads[k], 1).data

\* a load in which a percentage fault with faultParam = 1 was applied to a
\* window another fault had changed before
C21_WitnessPercentage ==
    \E k \in 1..Len(loads) :
        /\ Len(loads[k].sensorfaults) = 2
        /\ loads[k].sensorfaults[2].faultType = "percentage"
        /\ loads[k].sensorfaults[2].faultParam = 1
        /\ applies(loads[k], 2)
        /\ same_window(loads[k].sensorfaults[1], loads[k].sensorfaults[2])
        /\ after_faults(loads[k], 1).data # after_faults(loads[k], 0).data
        /\ loads[k].data = after_faults(loads[k], 1).data


\* the fault types _apply_sensorfault knows
FaultTypes == {"constant", "drift", "normal", "percentage", "shift", "stuckzero"}

\* a sensorfault config without its n-th sensorfault
without_fault(sensorfaults, n) ==
    SubSeq(sensorfaults, 1, n - 1) \o SubSeq(sensorfaults, n + 1, Len(sensorfaults))

\* Scenario.get of a load if its sensorfault config had not listed the
\* n-th sensorfault, the rng seeded as in the load
load_without(ld, n) ==
    load(measurement_files, ld.mask, without_fault(ld.sensorfaults, n),
         seed_of(ld.sensorfaults))

\* a sensorfault of an unknown type, or of a type other than stuckzero
\* without faultParam
bad_fault(config) ==
    \/ config.faultType \notin FaultTypes
    \/ ~config.has_param /\ config.faultType # "stuckzero"

\* C22: in every load, a sensorfault of an unknown type, or without faultParam where the
\* type needs one, changes nothing of the data or the rng, and the load
\* returns what the other sensorfaults of the config make of the data.
C22_BadFaultSkipped ==
    \A k \in latest :
        \A n \in 1..Len(loads[k].sensorfaults) :
            bad_fault(loads[k].sensorfaults[n])
            => /\ after_faults(loads[k], n).data = after_faults(loads[k], n - 1).data
               /\ after_faults(loads[k], n).rng = after_faults(loads[k], n - 1).rng
               /\ loads[k].data = load_without(loads[k], n).data

\* a load whose first sensorfault is bad and names a column of the masked
\* table, and whose second sensorfault changed the data
C22_Witness ==
    \E k \in 1..Len(loads) :
        /\ Len(loads[k].sensorfaults) = 2
        /\ bad_fault(loads[k].sensorfaults[1])
        /\ loads[k].sensorfaults[1].partId
              \in DOMAIN after_faults(loads[k], 0).data[loads[k].sensorfaults[1].sensorType]
        /\ loads[k].sensorfaults[2].faultType = "normal"
        /\ applies(loads[k], 2)
        /\ loads[k].data # after_faults(loads[k], 0).data

\* C23: in every load, a sensorfault whose partId is not a column of the masked table of
\* its sensor type changes nothing of the data or the rng, and the load
\* returns what the other sensorfaults of the config make of the data.
C23_FaultOnMaskedOutPartIgnored ==
    \A k \in latest :
        \A n \in 1..Len(loads[k].sensorfaults) :
            LET config == loads[k].sensorfaults[n]
            IN  config.partId \notin DOMAIN after_faults(loads[k], 0).data[config.sensorType]
                => /\ after_faults(loads[k], n).data = after_faults(loads[k], n - 1).data
                   /\ after_faults(loads[k], n).rng = after_faults(loads[k], n - 1).rng
                   /\ loads[k].data = load_without(loads[k], n).data
                   /\ \A sensor_type \in DOMAIN loads[k].data :
                         DOMAIN loads[k].data[sensor_type]
                            = DOMAIN after_faults(loads[k], 0).data[sensor_type]

\* a load whose first sensorfault is a good one on a part that the file
\* holds and the sensor config leaves out, and whose second sensorfault
\* changed the data
C23_Witness ==
    \E k \in 1..Len(loads) :
        /\ Len(loads[k].sensorfaults) = 2
        /\ ~bad_fault(loads[k].sensorfaults[1])
        /\ loads[k].sensorfaults[1].partId
              \in DOMAIN measurement_files[loads[k].sensorfaults[1].sensorType]
        /\ ~applies(loads[k], 1)
        /\ applies(loads[k], 2)
        /\ loads[k].data # after_faults(loads[k], 0).data


\* the measurements as the simulation saved them, cut to the sensors of a
\* sensor config
clean(mask) ==
    [demand |-> [part_id \in mask.DemandSensors |->
                    [t \in 1..Samples |-> Sample(FileValue(part_id, t))]],
     flow |-> [part_id \in mask.FlowSensors |->
                    [t \in 1..Samples |-> Sample(FileValue(part_id, t))]],
     pressure |-> [part_id \in mask.PressureSensors |->
                    [t \in 1..Samples |-> Sample(FileValue(part_id, t))]]]

\* C24: Scenario.get leaves the measurement files and the sensorfault
\* config as they are; every load with the fault-free config returns the
\* clean measurements, whatever was loaded before, and two loads with the
\* same sensor config and sensorfault config return the same data.
C24_LoadChangesNothingOnDisk ==
    [][ /\ measurement_files' = measurement_files
        /\ sensorfault_config' = sensorfault_config
        /\ \A k \in 1..Len(loads') :
              loads'[k].sensorfaults = <<>>
              => loads'[k].data = clean(loads'[k].mask)
        /\ \A a \in 1..Len(loads'), b \in 1..Len(loads') :
              ( /\ loads'[a].mask = loads'[b].mask
                /\ loads'[a].sensorfaults = loads'[b].sensorfaults )
              => loads'[a].data = loads'[b].data ]_vars

\* a load with sensorfaults that changed the data, and after it a load of
\* the same sensors with the fault-free config
C24_Witness ==
    /\ Len(loads) = 2
    /\ loads[1].sensorfaults # <<>>
    /\ loads[1].data # clean(loads[1].mask)
    /\ loads[2].sensorfaults = <<>>
    /\ loads[2].mask = loads[1].mask

\* the same load with sensorfaults, with a normal fault among them, twice
C24_WitnessRepeat ==
    /\ Len(loads) = 2
    /\ loads[1].data # clean(loads[1].mask)
    /\ \E n \in 1..Len(loads[1].sensorfaults) : loads[1].added[n] # <<>>
    /\ loads[2].sensorfaults = loads[1].sensorfaults
    /\ loads[2].mask = loads[1].mask


\* C30: in every load, a sensorfault that applies changes no other column and, in its
\* column, no sample outside rows start..end-1 (counted from 0); in these
\* rows constant leaves faultParam, stuckzero leaves 0, and shift leaves the
\* former value plus faultParam.
C30_FaultChangesOnlyItsWindow ==
    \A k \in latest :
        \A n \in 1..Len(loads[k].sensorfaults) :
            LET config == loads[k].sensorfaults[n]
                before == after_faults(loads[k], n - 1).data
                after == after_faults(loads[k], n).data
                inside(t) == config.start <= t - 1 /\ t - 1 < config.end
            IN  applies(loads[k], n)
                => /\ \A sensor_type \in DOMAIN before :
                         /\ DOMAIN after[sensor_type] = DOMAIN before[sensor_type]
                         /\ \A part_id \in DOMAIN before[sensor_type] :
                               (sensor_type # config.sensorType \/ part_id # config.partId)
                               => after[sensor_type][part_id] = before[sensor_type][part_id]
                   /\ \A t \in 1..Samples :
                         LET old == before[config.sensorType][config.partId][t]
                             new == after[config.sensorType][config.partId][t]
                         IN  /\ ~inside(t) => new = old
                             /\ (inside(t) /\ config.faultType = "constant")
                                => new = [v |-> config.faultParam, noise |-> {}]
                             /\ (inside(t) /\ config.faultType = "stuckzero")
                                => new = [v |-> 0, noise |-> {}]
                             /\ (inside(t) /\ config.faultType = "shift")
                                => new = [v |-> old.v + config.faultParam,
                                          noise |-> old.noise]

\* a load in which two faults of the types constant, stuckzero and shift
\* were applied, each of them changing the data
C30_Witness ==
    \E k \in 1..Len(loads) :
        /\ Len(loads[k].sensorfaults) = 2
        /\ \A n \in 1..2 :
              /\ loads[k].sensorfaults[n].faultType \in {"constant", "stuckzero", "shift"}
              /\ applies(loads[k], n)
              /\ after_faults(loads[k], n).data # after_faults(loads[k], n - 1).data
        /\ loads[k].sensorfaults[1].faultType # loads[k].sensorfaults[2].faultType
        /\ loads[k].data = after_faults(loads[k], 2).data


\* ---------------------------------------------------------------------
\* Properties of the setup: skipped scenarios and forced removal
\* ---------------------------------------------------------------------

\* a step that is a run of create_job_list_and_write_configs
JobListCreated == genpc # "pool" /\ genpc' = "pool"

\* C28: after the job list is created, no artifact of a scenario that was
\* skipped for its memory has been removed or written by the run.
C28_SkippedScenarioUntouched ==
    genpc = "pool" =>
        \A s \in errors :
            \A a \in deleted \cup written : a.scenario # s

\* the leak configs of the config whose scenario passes the memory test
\* and that the selection selects
SelectedFittingPairs(scens, sel, avail) ==
    {p \in Pairs(scens) :
        /\ is_selected(sel, p[1], p[2])
        /\ EstimateOf(scens, p[1]) <= avail * Scale}

\* C29 as stated: a forced run that creates a job for a leak config named
\* by an exact selector has removed the topology, the leak config file and
\* the measurements of it that were on disk.
C29_ForceRemovesTopologyLeakMeasurements ==
    [][(JobListCreated /\ force_regenerate') =>
         \A p \in JobPairs(job_list') :
            ( /\ selection'.given
              /\ Dotted(p[1], p[2]) \in selection'.list )
            => ({Topology(p[1]), LeakConfig(p[1], p[2]), Measurements(p[1], p[2])}
                    \cap collection) \subseteq deleted']_vars

\* C29, amended: a forced run removes everything on disk of a scenario that
\* is selected as a whole; of a scenario that is not, it removes nothing
\* but measurements; and every selected leak config of a scenario within
\* the budget has its measurements removed, if there were any, and gets a
\* job.
C29_ForceRemovesMeasurementsOrScenario ==
    [][(JobListCreated /\ force_regenerate') =>
         /\ \A i \in 1..Len(scenarios) :
               IF is_selected(selection', scenarios[i].name, "*")
               THEN {a \in collection : a.scenario = scenarios[i].name} \subseteq deleted'
               ELSE \A a \in deleted' :
                       a.scenario = scenarios[i].name => a.kind = "measurements"
         /\ \A p \in SelectedFittingPairs(scenarios, selection', available_memory') :
               /\ Measurements(p[1], p[2]) \in collection
                  => Measurements(p[1], p[2]) \in deleted'
               /\ Measurements(p[1], p[2]) \notin collection'
               /\ p \in JobPairs(job_list')]_vars

\* a forced run with an exact selector met the topology, the leak config
\* file and the measurements of the selected leak config, removed the
\* measurements alone and created the job
C29_Witness ==
    /\ genpc = "pool"
    /\ force_regenerate
    /\ selection.given
    /\ \E p \in JobPairs(job_list) :
          /\ Dotted(p[1], p[2]) \in selection.list
          /\ ~is_selected(selection, p[1], "*")
          /\ Measurements(p[1], p[2]) \in deleted
          /\ Topology(p[1]) \notin deleted
          /\ LeakConfig(p[1], p[2]) \notin deleted
          /\ {Topology(p[1]), LeakConfig(p[1], p[2])} \subseteq written


\* ---------------------------------------------------------------------
\* Properties of the pool: jobs whose init fails
\* ---------------------------------------------------------------------

\* the leaks insert_leak refuses: an incipient leak without a peak, a leak
\* with neither nodeId nor pipeId, a leak of an unknown type
refused(leak_info) ==
    \/ leak_info.type = "incipient" /\ ~leak_info.peak
    \/ leak_info.target = "none"
    \/ leak_info.type \notin {"incipient", "abrupt"}

\* insert_leak returns false for the leaks it refuses and for no other, and
\* init returns false exactly for the leak lists that hold such a leak; a
\* job whose init returned false is in state Failed and not simulated
InsertLeakReportsFailure ==
    /\ \A leak_info \in LeakChoices : insert_leak(leak_info) = ~refused(leak_info)
    /\ \A leaks \in LeakLists :
          init(leaks) = (\A n \in 1..Len(leaks) : ~refused(leaks[n]))
    /\ \A w \in Workers :
          (cur[w] # 0 /\ state[cur[w]] = "Failed") => pc[w] \notin {"simulate", "save"}

\* C26: once the init of a job has failed, the run goes on with the other
\* jobs and comes to its end.
C26_RunContinuesAfterFailedInit ==
    (\E j \in Jobs : state[j] = "Failed")
        ~> (mainpc \in {"done", "aborted", "error"})


\* ---------------------------------------------------------------------
\* Writing the topology and the configs of a scenario
\* ---------------------------------------------------------------------

MaxWrites == 3

\* the networks the scenario may name: the ids of their nodes
NetworkChoices == {<<"n1">>, <<"n1", "n2">>}

\* a config element of the config file: its tag, its name and the ids of
\* the parts its children name
Config(tag, name, ids) == [tag |-> tag, name |-> name, ids |-> ids]

XmlConfigChoices ==
    {Config("LeakConfig", "L", <<>>),
     Config("LeakConfig", "L", <<"n1">>),
     Config("SensorConfig", "S", <<"n1">>)}

\* the folder of the configs of a tag
folder_of(tag) == IF tag = "LeakConfig" THEN "A/leaks" ELSE "A/sensors"

\* the serialised children of an element, one per id
RECURSIVE elements(_, _)
elements(tag, ids) ==
    IF ids = <<>> THEN ""
    ELSE "<" \o tag \o " id=\"" \o Head(ids) \o "\"/>" \o elements(tag, Tail(ids))

\* write_topology: the tree built from the nodes of the network
topology_xml(wn) == [tag |-> "Network", name |-> "", ids |-> wn]

\* lxml's serialisation of a tree with xml_declaration=True
tostring(xml) ==
    "<?xml version='1.0' encoding='ASCII'?>\n"
        \o (IF xml.tag = "Network"
            THEN "<Network><Nodes>" \o elements("Node", xml.ids)
                     \o "</Nodes><Links/></Network>"
            ELSE "<" \o xml.tag \o " name=\"" \o xml.name \o "\">"
                     \o elements("Part", xml.ids) \o "</" \o xml.tag \o ">")

\* os.path.exists(file_path)
exists(files, file_path) == file_path \in DOMAIN files

\* open(file_path).read()
read(files, file_path) == files[file_path]

\* xml.write(file_path, xml_declaration=True)
xml_write(files, xml, file_path) ==
    [path \in DOMAIN files \cup {file_path} |->
        IF path = file_path THEN tostring(xml) ELSE files[path]]

\* hashlib.md5(text).digest(): the digests of different texts are taken to
\* differ; no digest is the empty tuple, which stands for None
md5(text) == <<"md5", text>>

\* a variant of write_xml_warn_if_changed that warns whenever the file
\* existed
write_xml_warn_if_existed(files, xml, file_path) ==
    [files |-> xml_write(files, xml, file_path),
     warned |-> exists(files, file_path)]

\* write_xml_warn_if_changed: the files after the call, and whether the
\* warning was printed
write_xml_warn_if_changed(files, xml, file_path) ==
    LET old_file_hash == IF exists(files, file_path)
                         THEN md5(read(files, file_path))
                         ELSE <<>>
        written_files == xml_write(files, xml, file_path)
        new_file_hash == md5(read(written_files, file_path))
    IN  [files |-> written_files,
         warned |-> old_file_hash # <<>> /\ new_file_hash # old_file_hash]

\* the two callers give the tree and the path
Write(xml, file_path) ==
    /\ Len(writes) < MaxWrites
    /\ \E r \in {write_xml_warn_if_changed(xml_files, xml, file_path)} :
          /\ xml_files' = r.files
          /\ writes' = Append(writes, [path |-> file_path, xml |-> xml,
                                       warned |-> r.warned])
    /\ UNCHANGED <<available_memory, n_threads, job_list, workervars, setupvars,
                   maskvars, loadvars, patternvars>>

\* write_topology
WriteTopology(wn) == Write(topology_xml(wn), "A/topology.xml")

\* write_config
WriteConfig(config) ==
    Write(config, folder_of(config.tag) \o "/" \o config.name \o ".xml")

\* an empty scenario folder
WriteInit ==
    /\ xml_files = <<>>
    /\ writes = <<>>
    /\ NoSetup
    /\ NoPool
    /\ NoMasks
    /\ NoLoads
    /\ NoPattern

WriteNext ==
    \/ \E wn \in NetworkChoices : WriteTopology(wn)
    \/ \E config \in XmlConfigChoices : WriteConfig(config)

SpecWrite == WriteInit /\ [][WriteNext]_vars

\* C25: every write leaves the serialised tree in the file, and it prints
\* the warning exactly if the file was there before with a text that
\* differs from the one it holds after the write.
C25_WriteReplacesAndWarnsOnDrift ==
    [][Len(writes') = Len(writes) + 1 =>
         LET w == writes'[Len(writes')]
         IN  /\ w.path \in DOMAIN xml_files'
             /\ xml_files'[w.path] = tostring(w.xml)
             /\ w.warned <=> ( /\ w.path \in DOMAIN xml_files
                               /\ xml_files[w.path] # xml_files'[w.path] )]_vars

\* a file was written for the first time, written again with the same
\* content, both without a warning, and then written with another content,
\* with a warning
C25_Witness ==
    /\ Len(writes) = 3
    /\ writes[1].path = writes[2].path
    /\ writes[2].path = writes[3].path
    /\ writes[1].xml = writes[2].xml
    /\ writes[3].xml # writes[2].xml
    /\ ~writes[1].warned
    /\ ~writes[2].warned
    /\ writes[3].warned
    /\ xml_files[writes[3].path] = tostring(writes[3].xml)


\* ---------------------------------------------------------------------
\* The demand pattern of an incipient leak
\* ---------------------------------------------------------------------

MaxIterations == 4

\* the diameters of the leaks looked at
Diameters == {1, 2}

\* wn.options.time.pattern_timestep of the networks looked at; the time
\* step of the scenario is 1
PatternTimesteps == {1, 2}

\* a demand, as a fraction of 0.75 * sqrt(2/1000) * 990.27 * pi
Demand(num, den) == [num |-> num, den |-> den]

\* order and equality of demands, the denominators being positive
Less(a, b) == a.num * b.den < b.num * a.den
Equal(a, b) == a.num * b.den = b.num * a.den

\* the least integer not below a / b, for b > 0
Ceil(a, b) == -((-a) \div b)

\* np.arange(first, stop, step) for a step above 0
arange(first, stop, step) ==
    [k \in 1..(IF stop > first THEN Ceil(stop - first, step) ELSE 0) |->
        first + (k - 1) * step]

\* a variant of the radii that stops at diameter/2, without the margin of
\* half a step
leak_radii_no_margin(ramp_length) == arange(2, 2 * ramp_length, 2)

\* leak_radii = np.arange(leak_radius_step, diameter/2 + leak_radius_step * 0.5,
\* leak_radius_step), counted in halves of leak_radius_step = diameter /
\* (i_peak - i_start) / 2: from 2 to below 2 * (i_peak - i_start) + 1 in
\* steps of 2, whatever the sign of i_peak - i_start
leak_radii(ramp_length) == arange(2, 2 * ramp_length + 1, 2)

\* leak_ramp_up: the demands of the radii, a radius of r halves of
\* leak_radius_step being r * diameter / (4 * (i_peak - i_start))
leak_ramp_up(diameter, i_start, i_peak) ==
    IF i_peak = i_start THEN <<>>
    ELSE LET radii == leak_radii(i_peak - i_start)
         IN  [k \in 1..Len(radii) |->
                 Demand(radii[k] * radii[k] * diameter * diameter,
                        16 * (i_peak - i_start) * (i_peak - i_start))]

\* leak_demand_constant: the demand of the full orifice
leak_demand_constant(diameter) == Demand(diameter * diameter, 4)

\* the indices, counted from 1, of pattern[from:to] for from, to >= 0
slice(pattern, from, to) == {i \in 1..Len(pattern) : from < i /\ i <= to}

\* pattern[from:to] = values for an array: numpy raises ValueError unless
\* the array has the length of the slice or the length 1
assign_array(pattern, from, to, values) ==
    LET n == Cardinality(slice(pattern, from, to))
    IN  IF Len(values) = n
        THEN [raised |-> FALSE,
              pattern |-> [i \in 1..Len(pattern) |->
                              IF i \in slice(pattern, from, to)
                              THEN values[i - from] ELSE pattern[i]]]
        ELSE IF Len(values) = 1
        THEN [raised |-> FALSE,
              pattern |-> [i \in 1..Len(pattern) |->
                              IF i \in slice(pattern, from, to)
                              THEN values[1] ELSE pattern[i]]]
        ELSE [raised |-> TRUE, pattern |-> pattern]

\* pattern[from:to] = value for a number
assign_number(pattern, from, to, value) ==
    [i \in 1..Len(pattern) |->
        IF i \in slice(pattern, from, to) THEN value ELSE pattern[i]]

\* np.interp(np.arange(0, stretched_max, scaling_factor),
\* np.arange(0, pattern.shape[0]), pattern) for a time step of 1: the
\* points are the multiples of the pattern timestep below iterations *
\* pattern_timestep, and a point beyond the last index takes the last value
resample(pattern, iterations, pattern_timestep) ==
    LET points == arange(0, iterations * pattern_timestep, pattern_timestep)
    IN  [k \in 1..Len(points) |->
            IF points[k] <= Len(pattern) - 1 THEN pattern[points[k] + 1]
            ELSE pattern[Len(pattern)]]

\* insert_leak for an incipient leak, from the ramp to the pattern that is
\* added to the network
incipient_pattern(l) ==
    LET ramp == leak_ramp_up(l.diameter, l.start, l.peak)
        zeros == [i \in 1..l.iterations |-> Demand(0, 1)]
        ramped == assign_array(zeros, l.start, l.peak, ramp)
        pattern == assign_number(ramped.pattern, l.peak, l.end,
                                 leak_demand_constant(l.diameter))
    IN  IF ramped.raised
        THEN [made |-> TRUE, raised |-> TRUE, ramp |-> ramp, pattern |-> <<>>]
        ELSE [made |-> TRUE, raised |-> FALSE, ramp |-> ramp,
              pattern |-> IF l.pattern_timestep # l.time_step
                          THEN resample(pattern, l.iterations, l.pattern_timestep)
                          ELSE pattern]

\* an incipient leak with a peak and a target, in a job that is about to
\* insert it
PatternInit ==
    /\ incipient_leak \in [iterations : 1..MaxIterations,
                           start : 0..MaxIterations,
                           peak : 0..MaxIterations,
                           end : 0..MaxIterations,
                           diameter : Diameters,
                           pattern_timestep : PatternTimesteps,
                           time_step : {1}]
    /\ leak_pattern = [made |-> FALSE, raised |-> FALSE, ramp |-> <<>>,
                       pattern |-> <<>>]
    /\ NoNetwork
    /\ NoSave
    /\ NoSetup
    /\ NoPool
    /\ NoMasks
    /\ NoLoads
    /\ NoWrites

\* insert_leak
InsertLeak ==
    /\ ~leak_pattern.made
    /\ leak_pattern' = incipient_pattern(incipient_leak)
    /\ UNCHANGED <<incipient_leak, networkvars, savevars, available_memory, n_threads,
                   job_list, workervars, setupvars, maskvars, loadvars, writevars>>

PatternNext == InsertLeak

SpecPattern == PatternInit /\ [][PatternNext]_vars

\* 0 <= start <= peak <= end <= iterations, and the pattern timestep of
\* the network is the time step of the scenario
InOrder(l) ==
    /\ l.start <= l.peak
    /\ l.peak <= l.end
    /\ l.end <= l.iterations
    /\ l.pattern_timestep = l.time_step

\* C27: for 0 <= start <= peak <= end <= iterations and no resampling the
\* pattern is made without an error, has iterations samples, is 0 outside
\* [start, end), has peak - start ramp samples that rise strictly over
\* [start, peak), and is the demand of the full orifice over [peak, end).
C27_IncipientPatternShape ==
    (leak_pattern.made /\ InOrder(incipient_leak)) =>
        LET l == incipient_leak
            pattern == leak_pattern.pattern
        IN  /\ ~leak_pattern.raised
            /\ Len(pattern) = l.iterations
            /\ Len(leak_pattern.ramp) = l.peak - l.start
            /\ \A i \in 0..(l.iterations - 1) :
                  /\ (i < l.start \/ i >= l.end) => pattern[i + 1].num = 0
                  /\ (l.start <= i /\ i < l.peak)
                     => pattern[i + 1] = leak_pattern.ramp[i + 1 - l.start]
                  /\ (l.start <= i /\ i + 1 < l.peak)
                     => Less(pattern[i + 1], pattern[i + 2])
                  /\ (l.peak <= i /\ i < l.end)
                     => Equal(pattern[i + 1], Demand(l.diameter * l.diameter, 4))

\* a pattern with a leading zero, a ramp of two samples and a sample of
\* the full orifice
C27_Witness ==
    /\ leak_pattern.made
    /\ InOrder(incipient_leak)
    /\ incipient_leak.start = 1
    /\ incipient_leak.peak = 3
    /\ incipient_leak.end = 4
    /\ incipient_leak.diameter = 2
    /\ Less(Demand(0, 1), leak_pattern.pattern[2])
    /\ Less(leak_pattern.pattern[2], leak_pattern.pattern[3])


\* ---------------------------------------------------------------------
\* Properties of the loader: drift
\* ---------------------------------------------------------------------

\* C31: in every load, a drift fault that applies adds faultParam * k to
\* the k-th sample of its window, k counted from 1: faultParam to the
\* sample of row start, (end - start) * faultParam to the one of row end - 1.
C31_DriftAddsMultiples ==
    \A k \in latest :
        \A n \in 1..Len(loads[k].sensorfaults) :
            LET config == loads[k].sensorfaults[n]
                old == after_faults(loads[k], n - 1).data[config.sensorType][config.partId]
                new == after_faults(loads[k], n).data[config.sensorType][config.partId]
            IN  (applies(loads[k], n) /\ config.faultType = "drift")
                => /\ \A j \in 1..(config.end - config.start) :
                         new[config.start + j]
                            = [v |-> old[config.start + j].v + config.faultParam * j,
                               noise |-> old[config.start + j].noise]
                   /\ config.end > config.start
                      => /\ new[config.start + 1].v
                              = old[config.start + 1].v + config.faultParam
                         /\ new[config.end].v
                              = old[config.end].v
                                  + (config.end - config.start) * config.faultParam

\* a load in which a drift fault over a window of two samples was applied
\* to a column that another fault had changed before
C31_Witness ==
    \E k \in 1..Len(loads) :
        /\ Len(loads[k].sensorfaults) = 2
        /\ loads[k].sensorfaults[2].faultType = "drift"
        /\ loads[k].sensorfaults[2].end - loads[k].sensorfaults[2].start = 2
        /\ loads[k].sensorfaults[1].partId = loads[k].sensorfaults[2].partId
        /\ applies(loads[k], 1)
        /\ applies(loads[k], 2)
        /\ after_faults(loads[k], 1).data # after_faults(loads[k], 0).data
        /\ loads[k].data # after_faults(loads[k], 1).data


\* ---------------------------------------------------------------------
\* The leaks of one job, inserted into its network one after the other
\* ---------------------------------------------------------------------

MaxInserts == 3

\* the junctions and the pipes of the network file that leaks may name; as
\* in EPANET files, a junction and a pipe may have the same id
NodeIds == {"1", "1_1"}
PipeIds == {"1", "2"}

Link(name, start_node_name, end_node_name) ==
    [name |-> name, start_node_name |-> start_node_name,
     end_node_name |-> end_node_name]

\* the network as WaterNetworkModel(network_path) gives it
LoadedNetwork ==
    [nodes |-> NodeIds \cup {"3"},
     links |-> {Link("1", "1", "3"), Link("2", "1_1", "3")},
     patterns |-> <<>>]

\* a Leak element: its type, whether it has a peak, and its nodeId or
\* pipeId, PyNone standing for an attribute that is not there
Leak(type, peak, nodeId, pipeId) ==
    [type |-> type, peak |-> peak, nodeId |-> nodeId, pipeId |-> pipeId]

NetworkLeakChoices ==
    {Leak(type, TRUE, nodeId, PyNone) :
        type \in {"incipient", "abrupt"}, nodeId \in NodeIds}
    \cup {Leak(type, TRUE, PyNone, pipeId) :
        type \in {"incipient", "abrupt"}, pipeId \in PipeIds}
    \cup {Leak("incipient", FALSE, "1", PyNone), Leak("burst", TRUE, PyNone, "2")}

\* str(k) for a number below 10
Digit(k) ==
    CASE k = 0 -> "0" [] k = 1 -> "1" [] k = 2 -> "2" [] k = 3 -> "3"
      [] k = 4 -> "4" [] k = 5 -> "5" [] k = 6 -> "6" [] k = 7 -> "7"
      [] k = 8 -> "8" [] k = 9 -> "9"

\* str(k)
RECURSIVE str(_)
str(k) == IF k < 10 THEN Digit(k) ELSE str(k \div 10) \o Digit(k % 10)

\* the names of a sequence of names
Names(seq) == {seq[k] : k \in 1..Len(seq)}

\* a naming that gives every pattern of a leak node the same name
unique_pattern_name_base_only(pattern_name_list, base, pattern_id) == base

\* the loop that looks for a pattern name that is not in use: the name
\* tried first is the base, then the base with the suffix pattern_id
RECURSIVE unique_pattern_name(_, _, _)
unique_pattern_name(pattern_name_list, base, pattern_id) ==
    LET pattern_name == IF pattern_id = 0 THEN base
                        ELSE base \o "_" \o str(pattern_id)
    IN  IF pattern_name \in Names(pattern_name_list)
        THEN unique_pattern_name(pattern_name_list, base, pattern_id + 1)
        ELSE pattern_name

\* wntr.morph.split_pipe(wn, pipe, pipe_new, leak_node_name): the pipe
\* keeps its name and start and ends in the new node; the new pipe leads
\* from the new node to the former end
split_pipe(w, pipe_name, pipe_new, node_new) ==
    LET pipe == CHOOSE l \in w.links : l.name = pipe_name
    IN  [w EXCEPT !.nodes = @ \cup {node_new},
                  !.links = (@ \ {pipe})
                                \cup {Link(pipe_name, pipe.start_node_name, node_new),
                                      Link(pipe_new, node_new, pipe.end_node_name)}]

\* insert_leak up to "leak_node = self.wn.get_node(leak_node_name)": the
\* network after it and the name of the leak node
leak_node_of(w, leak_info) ==
    IF leak_info.nodeId # PyNone
    THEN IF leak_info.type = "incipient"
         THEN LET leak_node_name == "leak_node_" \o leak_info.nodeId
              IN  IF leak_node_name \notin w.nodes
                  THEN [wn |-> [w EXCEPT
                                   !.nodes = @ \cup {leak_node_name},
                                   !.links = @ \cup {Link("leak_segment_" \o leak_node_name,
                                                          leak_info.nodeId, leak_node_name)}],
                        leak_node_name |-> leak_node_name, created |-> TRUE]
                  ELSE [wn |-> w, leak_node_name |-> leak_node_name, created |-> FALSE]
         ELSE [wn |-> w, leak_node_name |-> leak_info.nodeId, created |-> FALSE]
    ELSE LET leak_node_name == "leak_node_" \o leak_info.pipeId
         IN  IF leak_node_name \notin w.nodes
             THEN [wn |-> split_pipe(w, leak_info.pipeId,
                                     "leak_segment_" \o leak_info.pipeId, leak_node_name),
                   leak_node_name |-> leak_node_name, created |-> TRUE]
             ELSE [wn |-> w, leak_node_name |-> leak_node_name, created |-> FALSE]

\* insert_leak on the network w: the network after it, what it returns,
\* the leak node, whether the node was made by this call, and the name of
\* the pattern it added
insert_leak_into(w, leak_info) ==
    IF (leak_info.type = "incipient" /\ ~leak_info.peak)
       \/ (leak_info.nodeId = PyNone /\ leak_info.pipeId = PyNone)
    THEN [wn |-> w, ok |-> FALSE, leak_node_name |-> PyNone, created |-> FALSE,
          pattern_name |-> PyNone]
    ELSE LET r == leak_node_of(w, leak_info)
             pattern_name == unique_pattern_name(r.wn.patterns,
                                 "leak_pattern_" \o r.leak_node_name, 0)
         IN  IF leak_info.type = "incipient"
             THEN [wn |-> [r.wn EXCEPT !.patterns = Append(@, pattern_name)],
                   ok |-> TRUE, leak_node_name |-> r.leak_node_name,
                   created |-> r.created, pattern_name |-> pattern_name]
             ELSE [wn |-> r.wn, ok |-> leak_info.type = "abrupt",
                   leak_node_name |-> r.leak_node_name, created |-> r.created,
                   pattern_name |-> PyNone]

\* SimulationJob.init after the network is loaded
LeaksInit ==
    /\ wn_nodes = LoadedNetwork.nodes
    /\ wn_links = LoadedNetwork.links
    /\ wn_patterns = LoadedNetwork.patterns
    /\ inserted = <<>>
    /\ incipient_leak = <<>>
    /\ leak_pattern = <<>>
    /\ NoSave
    /\ NoSetup
    /\ NoPool
    /\ NoMasks
    /\ NoLoads
    /\ NoWrites

\* one pass of "for leak in self.leaks": init goes on only while
\* insert_leak returns True
InsertLeakInto(leak_info) ==
    /\ Len(inserted) < MaxInserts
    /\ IF Len(inserted) = 0 THEN TRUE ELSE inserted[Len(inserted)].ok
    /\ \E r \in {insert_leak_into([nodes |-> wn_nodes, links |-> wn_links,
                                   patterns |-> wn_patterns], leak_info)} :
          /\ wn_nodes' = r.wn.nodes
          /\ wn_links' = r.wn.links
          /\ wn_patterns' = r.wn.patterns
          /\ inserted' = Append(inserted,
                                [leak_info |-> leak_info, ok |-> r.ok,
                                 leak_node_name |-> r.leak_node_name,
                                 created |-> r.created,
                                 pattern_name |-> r.pattern_name])
    /\ UNCHANGED <<incipient_leak, leak_pattern, savevars, available_memory, n_threads,
                   job_list, workervars, setupvars, maskvars, loadvars, writevars>>

LeaksNext == \E leak_info \in NetworkLeakChoices : InsertLeakInto(leak_info)

SpecLeaks == LeaksInit /\ [][LeaksNext]_vars

\* the calls so far that got as far as a leak node
Located == {k \in 1..Len(inserted) : inserted[k].leak_node_name # PyNone}

\* C32: every pipe a leak names ends in the one leak node named from it
\* and was split by one call only; every node an incipient leak names has
\* one segment to the one leak node named from it, made by one call only;
\* and two leaks on the same target have the same leak node.
C32_OneLeakNodePerTarget ==
    /\ \A k \in Located :
          LET leak_info == inserted[k].leak_info
          IN  /\ leak_info.pipeId # PyNone
                 => /\ Cardinality({j \in Located :
                                      /\ inserted[j].leak_info.pipeId = leak_info.pipeId
                                      /\ inserted[j].created}) = 1
                    /\ \E l \in wn_links :
                          /\ l.name = leak_info.pipeId
                          /\ l.end_node_name = "leak_node_" \o leak_info.pipeId
              /\ (leak_info.nodeId # PyNone /\ leak_info.type = "incipient")
                 => /\ Cardinality({j \in Located :
                                      /\ inserted[j].leak_info.nodeId = leak_info.nodeId
                                      /\ inserted[j].created}) = 1
                    /\ Cardinality({l \in wn_links :
                                      /\ l.start_node_name = leak_info.nodeId
                                      /\ l.end_node_name = "leak_node_" \o leak_info.nodeId}) = 1
    /\ \A j \in Located, k \in Located :
          ( /\ inserted[j].leak_info.nodeId = inserted[k].leak_info.nodeId
            /\ inserted[j].leak_info.pipeId = inserted[k].leak_info.pipeId
            /\ inserted[j].leak_info.type = inserted[k].leak_info.type )
          => inserted[j].leak_node_name = inserted[k].leak_node_name

\* the calls so far that added a pattern
Patterned == {k \in 1..Len(inserted) : inserted[k].pattern_name # PyNone}

\* the name the k-th call tries first
base_name(k) == "leak_pattern_" \o inserted[k].leak_node_name

\* the pattern names of the network before the k-th call
names_before(k) == {inserted[j].pattern_name : j \in {i \in Patterned : i < k}}

\* C33 as stated: the pattern names are pairwise distinct, the first
\* incipient leak on a leak node gets the base name and the k-th further
\* one the base name with the suffix k.
C33_SuffixCountsLeaksOnNode ==
    /\ \A j \in Patterned, k \in Patterned :
          j # k => inserted[j].pattern_name # inserted[k].pattern_name
    /\ \A k \in Patterned :
          LET further == Cardinality({j \in Patterned :
                             j < k /\ inserted[j].leak_node_name = inserted[k].leak_node_name})
          IN  inserted[k].pattern_name =
                  IF further = 0 THEN base_name(k)
                  ELSE base_name(k) \o "_" \o str(further)

\* C33, amended: the pattern names are pairwise distinct and no pattern is
\* overwritten; a leak gets the base name of its leak node when no pattern
\* has it, and otherwise the base name with the least suffix k >= 1 that
\* no pattern has.
C33_PatternNamesDistinct ==
    /\ \A j \in Patterned, k \in Patterned :
          j # k => inserted[j].pattern_name # inserted[k].pattern_name
    /\ wn_patterns = [k \in 1..Len(wn_patterns) |->
                         inserted[CHOOSE j \in Patterned :
                             Cardinality({i \in Patterned : i <= j}) = k].pattern_name]
    /\ \A k \in Patterned :
          IF base_name(k) \notin names_before(k)
          THEN inserted[k].pattern_name = base_name(k)
          ELSE \E n \in 1..MaxInserts :
                  /\ inserted[k].pattern_name = base_name(k) \o "_" \o str(n)
                  /\ \A m \in 1..(n - 1) :
                        base_name(k) \o "_" \o str(m) \in names_before(k)

\* three incipient leaks on one leak node: the base name, then the
\* suffixes 1 and 2
C33_Witness ==
    /\ Len(wn_patterns) = 3
    /\ \A k \in 1..3 : inserted[k].leak_node_name = "leak_node_2"
    /\ wn_patterns = <<"leak_pattern_leak_node_2", "leak_pattern_leak_node_2_1",
                       "leak_pattern_leak_node_2_2">>


\* ---------------------------------------------------------------------
\* The dtype of the command line and the measurements saved with it
\* ---------------------------------------------------------------------

MaxSaves == 2

\* values of the -d option: the five the check at the start of run(args)
\* knows, and some it does not know
DtypeChoices == {"8", "16", "32", "64", "csv", "float32", "int32", "abc"}

KnownDtypes == {"8", "16", "32", "64", "csv"}

\* the names numpy takes as a data type, among those that can get to save
NumpyDtypes == {"float16", "float32", "float64", "int32"}

\* results of a simulation: whole numbers that the float types keep or
\* round
ResultChoices == {1, 2049, 70000, 16777217}

\* a float: a number, or inf
Finite(number) == [finite |-> TRUE, number |-> number]

Infinity == [finite |-> FALSE, number |-> 0]

\* the greatest finite float16
MaxFloat16 == 65504

\* value rounded to a multiple of unit, ties to the even multiple
RoundTo(value, unit) ==
    LET below == (value \div unit) * unit
    IN  IF 2 * (value - below) < unit THEN below
        ELSE IF 2 * (value - below) > unit THEN below + unit
        ELSE IF (value \div unit) % 2 = 0 THEN below ELSE below + unit

\* the least power of two p with value < p * 2^bits
RECURSIVE Ulp(_, _, _)
Ulp(value, bits, p) ==
    IF value < p * (2 ^ bits) THEN p ELSE Ulp(value, bits, 2 * p)

\* DataFrame.astype for a whole number that is not negative: a float type
\* keeps as many leading bits as its significand has and overflows to
\* inf, int32 and float64 keep the numbers of ResultChoices
astype(value, type) ==
    CASE type = "float16" ->
           IF RoundTo(value, Ulp(value, 11, 1)) > MaxFloat16 THEN Infinity
           ELSE Finite(RoundTo(value, Ulp(value, 11, 1)))
      [] type = "float32" -> Finite(RoundTo(value, Ulp(value, 24, 1)))
      [] type = "float64" -> Finite(value)
      [] type = "int32" -> Finite(value)

\* a check that does what its warning says
run_dtype_reverting(arg) ==
    [dtype |-> IF arg \notin KnownDtypes THEN "float16"
               ELSE IF arg # "csv" THEN "float" \o arg ELSE arg,
     warned |-> arg \notin KnownDtypes]

\* the check of the datatype in run(args): the dtype the generator is made
\* with and whether the warning was printed
run_dtype(arg) ==
    [dtype |-> IF arg \notin KnownDtypes THEN arg
               ELSE IF arg # "csv" THEN "float" \o arg ELSE arg,
     warned |-> arg \notin KnownDtypes]

\* the frames save writes, each to a file of its own
Frames == {"pressure", "flow", "demand"}

\* SimulationJob.save with the dtype the job was made with, on a result
\* value: the folder is made, then the files are written as csv or as
\* pickles of the type, unless the first astype raises
save(job_dtype, value) ==
    IF job_dtype = "csv"
    THEN [folder |-> TRUE, raised |-> FALSE,
          files |-> {[name |-> frame \o ".csv", type |-> "text",
                      value |-> Finite(value)] : frame \in Frames}]
    ELSE IF job_dtype \in NumpyDtypes
         THEN [folder |-> TRUE, raised |-> FALSE,
               files |-> {[name |-> frame \o ".pkl", type |-> job_dtype,
                           value |-> astype(value, job_dtype)] : frame \in Frames}]
         ELSE [folder |-> TRUE, raised |-> TRUE, files |-> {}]

SaveInit ==
    /\ NoSave
    /\ incipient_leak = <<>>
    /\ leak_pattern = <<>>
    /\ NoNetwork
    /\ NoSetup
    /\ NoPool
    /\ NoMasks
    /\ NoLoads
    /\ NoWrites

\* run(args) up to the making of the generator, whose jobs get its dtype
RunArgs(arg) ==
    /\ dtype = PyNone
    /\ dtype' = run_dtype(arg).dtype
    /\ warned' = run_dtype(arg).warned
    /\ UNCHANGED <<stored, incipient_leak, leak_pattern, networkvars,
                   available_memory, n_threads, job_list, workervars, setupvars,
                   maskvars, loadvars, writevars>>

\* a job of the run saves its results
SaveResults(value) ==
    /\ dtype # PyNone
    /\ Len(stored) < MaxSaves
    /\ stored' = Append(stored, save(dtype, value))
    /\ UNCHANGED <<dtype, warned, incipient_leak, leak_pattern, networkvars,
                   available_memory, n_threads, job_list, workervars, setupvars,
                   maskvars, loadvars, writevars>>

SaveNext ==
    \/ \E arg \in DtypeChoices : RunArgs(arg)
    \/ \E value \in ResultChoices : SaveResults(value)

SpecSave == SaveInit /\ [][SaveNext]_vars

\* C34: when the warning about an unknown datatype was printed, the jobs
\* have the dtype float16 and every save stores pickles of float16.
C34_UnknownDtypeRevertsToFloat16 ==
    warned => /\ dtype = "float16"
              /\ \A k \in 1..Len(stored) :
                    /\ ~stored[k].raised
                    /\ stored[k].files # {}
                    /\ \A file \in stored[k].files : file.type = "float16"


\* ---------------------------------------------------------------------
\* Properties of the reservation: wake-ups and the budget
\* ---------------------------------------------------------------------

\* the amount of the job of worker w fits in the counter
fits(w) == reserve_memory(available_memory_shared, job_list[cur[w]].memory_estimate).reserved

\* no waiter whose amount fits sleeps unless a worker that gave memory
\* back is about to notify
NoLostWakeup ==
    \A v \in Workers :
        (pc[v] = "sleep" /\ fits(v)) => \E w \in Workers : pc[w] = "notify"

\* a notify_all leaves no waiter asleep and finds none between its failed
\* test and its sleep, and the next step of a woken waiter is the test
NotifiedRetest ==
    /\ (\E w \in Workers : pc[w] = "notify" /\ pc'[w] # "notify")
       => \A v \in Workers : pc[v] # "wait" /\ pc'[v] # "sleep"
    /\ \A v \in Workers :
          (pc[v] = "woken" /\ pc'[v] # "woken") => (pc'[v] = "pred" /\ lock' = v)

\* C35: a release is never lost between the failed test of a waiter and
\* its sleep, and a waiter that was notified tests the predicate again.
C35_NoLostWakeup == []NoLostWakeup /\ [][NotifiedRetest]_vars

\* a waiter was woken by a release after which its amount fits
C35_Witness ==
    \E v \in Workers : pc[v] = "woken" /\ fits(v)

\* the jobs that were admitted, have not given their memory back and whose
\* worker function has not ended
Holding ==
    {j \in reserved : state[j] \in {"Admitted", "Initialized", "Simulated", "Persisted"}}

\* C36: the counter plus the integer-truncated estimates of the jobs that
\* are admitted and have not terminated is the initial budget, and after
\* all jobs of a run have terminated the counter has its initial value.
C36_BudgetConserved ==
    /\ available_memory_shared + SumReserved(Holding) = available_memory
    /\ (\A j \in Jobs : state[j] \in {"Failed", "Raised", "Done"})
       => available_memory_shared = available_memory

\* C37: every job of the job list has an estimate that is at most the
\* available memory, and the reservation of its amount on the counter as
\* the pool starts with it, int(available_memory), succeeds.
C37_JobAloneIsAdmitted ==
    \A j \in 1..Len(job_list) :
        /\ job_list[j].memory_estimate <= available_memory * Scale
        /\ reserve_memory(available_memory, job_list[j].memory_estimate)
               = [reserved |-> TRUE,
                  value |-> available_memory - ToInt(job_list[j].memory_estimate)]

\* a run that skipped a scenario for its memory and made a job for another
C37_Witness ==
    /\ genpc = "pool"
    /\ errors # {}
    /\ job_list # <<>>

\* C38: a run whose job list is empty has a worker count of at least 1
\* after the clamp, its pool is created, and it ends with no simulation.
C38_EmptyJobListCompletes ==
    /\ (genpc = "pool" /\ job_list = <<>>) => n_threads >= 1
    /\ (genpc = "exited" /\ job_list = <<>>) => simulations = 0

\* the artifacts of a scenario in a set of artifacts
OfScenario(artifacts, s) == {a \in artifacts : a.scenario = s}

\* C39: a scenario that no entry of the selection names is left as it is
\* by a run, forced or not: none of its artifacts is created, rewritten or
\* deleted, its network is not loaded, and the job list and the clamped
\* thread count are those of the config without it.
C39_UnselectedScenarioUntouched ==
    [][genpc' # "start" =>
         \A i \in 1..Len(scenarios) :
             ~is_selected(selection', scenarios[i].name, PyNone)
             => /\ OfScenario(collection', scenarios[i].name)
                       = OfScenario(collection, scenarios[i].name)
                /\ OfScenario(deleted' \cup written', scenarios[i].name) = {}
                /\ scenarios[i].name \notin validated' \cup errors'
                /\ \E g \in {create_job_list_and_write_configs(
                                generator(selection', force_regenerate', available_memory',
                                          n_threads_arg', collection),
                                Without(scenarios, i))} :
                      genpc' = "pool" => /\ n_threads' = g.n_threads
                                         /\ job_list' = g.job_list]_vars

\* a forced run with a selection has made a job, and a scenario that the
\* selection does not name has measurements on disk
C39_Witness ==
    /\ genpc = "pool"
    /\ force_regenerate
    /\ job_list # <<>>
    /\ \E i \in 1..Len(scenarios) :
          /\ ~is_selected(selection, scenarios[i].name, PyNone)
          /\ \E a \in collection : a.scenario = scenarios[i].name /\ a.kind = "measurements"

\* the jobs of the job list that have no measurements folder
Unsaved == {j \in 1..Len(job_list) :
               Measurements(job_list[j].scenario, job_list[j].leak_config_name)
                   \notin collection}

\* C40: a pool run makes measurements folders for jobs that got past init
\* only, so a job whose init failed has none; and the next run without
\* force that selects the pair of a job left without folder, with memory
\* for its scenario, has a job for the pair again.
C40_FailedInitIsRetried ==
    [][/\ (genpc = "pool" /\ genpc' = "exited")
          => /\ collection' \ collection \subseteq MeasurementsOf(job_list, 1..Len(job_list))
             /\ Cardinality(collection' \ collection) <= simulations'
             /\ simulations' = 0 => Unsaved' = 1..Len(job_list)
       /\ (genpc = "exited" /\ genpc' = "pool" /\ ~force_regenerate')
          => \A j \in Unsaved :
                ( /\ is_selected(selection', job_list[j].scenario, job_list[j].leak_config_name)
                  /\ is_selected(selection', job_list[j].scenario, PyNone)
                  /\ job_list[j].memory_estimate <= available_memory' * Scale )
                => <<job_list[j].scenario, job_list[j].leak_config_name>>
                       \in JobPairs(job_list')]_vars

\* a run without force has ended in which no job of the list got past
\* init, and none of them has a measurements folder
C40_Witness ==
    /\ genpc = "exited"
    /\ ~force_regenerate
    /\ job_list # <<>>
    /\ simulations = 0
    /\ Unsaved = 1..Len(job_list)

====
